---------------------------- MODULE Spec2Model ----------------------------
(* Edge/cloud task placement: the node cost model (orchestrator/environment.py), *)
(* the latency simulators (orchestrator/sim_interface.py) and the approximate    *)
(* Q-learning placement policy (orchestrator/rl_orchestrator.py).                *)
(*                                                                               *)
(* Numbers. The program computes in IEEE doubles. Here a real x is the integer   *)
(* x * Scale (four decimal digits); sums and products by whole numbers are       *)
(* exact, and a product or quotient of two such numbers is rounded to the        *)
(* nearest unit (Mul, Div), as a double rounds to the nearest representable      *)
(* value.                                                                        *)
EXTENDS Integers, Sequences, FiniteSets, TLC

\* ------------------------------------------------------------------ numbers
Scale == 10 ^ 4

Abs(x) == IF x < 0 THEN -x ELSE x
Max2(a, b) == IF a >= b THEN a ELSE b
Min2(a, b) == IF a <= b THEN a ELSE b

\* n / d rounded to the nearest integer (halves upwards), d > 0
RoundDiv(n, d) ==
  LET q == n \div d
      m == n % d
  IN  IF 2 * m >= d THEN q + 1 ELSE q

\* the number p/q in units of 1/Scale
Fx(p, q) == RoundDiv(p * Scale, q)

\* a * b, the larger factor split so that no intermediate leaves 32 bits
MulSplit(a, b) == (a \div Scale) * b + RoundDiv((a % Scale) * b, Scale)
Mul(a, b) == IF Abs(a) >= Abs(b) THEN MulSplit(a, b) ELSE MulSplit(b, a)

\* a / b for b > 0
Div(a, b) == (a \div b) * Scale + RoundDiv((a % b) * Scale, b)

\* ------------------------------------------------------------------ strings
\* str.lower() and str.upper() on the strings the model uses
Lower(s) ==
  CASE s \in {"edge", "Edge", "EDGE"} -> "edge"
    [] s \in {"cloud", "Cloud"} -> "cloud"
    [] s \in {"iot", "IoT", "IOT"} -> "iot"
    [] s \in {"arvr", "ARVR"} -> "arvr"
    [] s \in {"vanet", "VANET"} -> "vanet"
    [] s \in {"low", "LOW"} -> "low"
    [] s \in {"medium", "Medium"} -> "medium"
    [] s \in {"high", "High"} -> "high"
    [] s \in {"simple", "Simple", "SIMPLE"} -> "simple"
    [] s \in {"fiveg", "FiveG"} -> "fiveg"
    [] s \in {"simu5g", "Simu5G"} -> "simu5g"
    [] OTHER -> s

Upper(s) ==
  CASE s \in {"iot", "IoT", "IOT"} -> "IOT"
    [] s \in {"arvr", "ARVR"} -> "ARVR"
    [] s \in {"vanet", "VANET"} -> "VANET"
    [] s \in {"video", "VIDEO"} -> "VIDEO"
    [] OTHER -> s

\* "edge" in t, for a lower-case node type t
ContainsEdge(t) == t \in {"edge", "edge_gw"}

\* ------------------------------------------------------------------ doubles
\* Where the program rounds a double to decimals (round(size, 3)), the result
\* depends on the side of the decimal tie on which the double lies, so those
\* values are computed as IEEE doubles: m * 2^e with m a natural number of at
\* most MantissaBits bits, held as its limbs, least significant first; four
\* limbs and a bit hold a mantissa.
MantissaBits == 53
LimbBits == (MantissaBits - 1) \div 4
LimbBase == 2 ^ LimbBits

RECURSIVE BigOf(_)
BigOf(n) == IF n = 0 THEN <<>> ELSE <<n % LimbBase>> \o BigOf(n \div LimbBase)

RECURSIVE BigToInt(_)
BigToInt(X) == IF X = <<>> THEN 0 ELSE Head(X) + LimbBase * BigToInt(Tail(X))

RECURSIVE BigTrim(_)
BigTrim(X) ==
  IF X # <<>> /\ X[Len(X)] = 0 THEN BigTrim(SubSeq(X, 1, Len(X) - 1)) ELSE X

RECURSIVE BigAddCarry(_, _, _)
BigAddCarry(X, Y, carry) ==
  IF X = <<>> /\ Y = <<>> THEN BigOf(carry)
  ELSE LET t == (IF X = <<>> THEN 0 ELSE Head(X)) + (IF Y = <<>> THEN 0 ELSE Head(Y)) + carry
       IN  <<t % LimbBase>> \o BigAddCarry(IF X = <<>> THEN X ELSE Tail(X),
                                           IF Y = <<>> THEN Y ELSE Tail(Y),
                                           t \div LimbBase)
BigAdd(X, Y) == BigAddCarry(X, Y, 0)

\* X * k for 0 <= k < 2^17
RECURSIVE BigMulSmallCarry(_, _, _)
BigMulSmallCarry(X, k, carry) ==
  IF X = <<>> THEN BigOf(carry)
  ELSE LET t == Head(X) * k + carry
       IN  <<t % LimbBase>> \o BigMulSmallCarry(Tail(X), k, t \div LimbBase)
BigMulSmall(X, k) == BigTrim(BigMulSmallCarry(X, k, 0))

RECURSIVE BigMul(_, _)
BigMul(X, Y) ==
  IF X = <<>> \/ Y = <<>> THEN <<>>
  ELSE BigAdd(BigMulSmall(X, Head(Y)),
              IF Tail(Y) = <<>> THEN <<>> ELSE <<0>> \o BigMul(X, Tail(Y)))

\* the sign of X - Y, compared from limb i downwards
RECURSIVE BigCmpFrom(_, _, _)
BigCmpFrom(X, Y, i) ==
  IF i = 0 THEN 0
  ELSE IF X[i] # Y[i] THEN (IF X[i] < Y[i] THEN -1 ELSE 1)
  ELSE BigCmpFrom(X, Y, i - 1)
BigCmp(X, Y) ==
  IF Len(X) # Len(Y) THEN (IF Len(X) < Len(Y) THEN -1 ELSE 1)
  ELSE BigCmpFrom(X, Y, Len(X))

RECURSIVE BitLength(_)
BitLength(n) == IF n = 0 THEN 0 ELSE 1 + BitLength(n \div 2)
BigBitLength(X) ==
  IF X = <<>> THEN 0 ELSE LimbBits * (Len(X) - 1) + BitLength(X[Len(X)])

\* X * 2^s, floor(X / 2^s) and X mod 2^s for s >= 0
BigShiftLeft(X, s) ==
  IF X = <<>> THEN X
  ELSE [i \in 1 .. (s \div LimbBits) |-> 0] \o BigMulSmall(X, 2 ^ (s % LimbBits))
BigShiftRight(X, s) ==
  LET j == s \div LimbBits
      k == 2 ^ (s % LimbBits)
      Y == SubSeq(X, j + 1, Len(X))
  IN  BigTrim([i \in 1 .. Len(Y) |->
                 (Y[i] \div k)
                 + (IF i < Len(Y) THEN (Y[i + 1] % k) * (LimbBase \div k) ELSE 0)])
BigLowBits(X, s) ==
  LET j == s \div LimbBits
  IN  IF j >= Len(X) THEN X
      ELSE BigTrim(SubSeq(X, 1, j) \o <<X[j + 1] % (2 ^ (s % LimbBits))>>)

\* X / 2^s rounded to the nearest integer, halves to the even one
BigRoundShift(X, s) ==
  LET q == BigShiftRight(X, s)
      half == BigCmp(BigShiftLeft(BigLowBits(X, s), 1), BigShiftLeft(<<1>>, s))
  IN  IF half > 0 \/ (half = 0 /\ q # <<>> /\ q[1] % 2 = 1) THEN BigAdd(q, <<1>>) ELSE q

\* floor(X / d) and X mod d for 0 < d < 2^18, from limb i downwards
RECURSIVE BigDivSmallFrom(_, _, _, _)
BigDivSmallFrom(X, d, i, rem) ==
  IF i = 0 THEN [q |-> <<>>, rem |-> rem]
  ELSE LET t == rem * LimbBase + X[i]
           rest == BigDivSmallFrom(X, d, i - 1, t % d)
       IN  [q |-> rest.q \o <<t \div d>>, rem |-> rest.rem]
BigDivSmall(X, d) ==
  LET r == BigDivSmallFrom(X, d, Len(X), 0) IN [q |-> BigTrim(r.q), rem |-> r.rem]

\* the double nearest to m * 2^e (round to nearest, ties to even)
Double(m, e) ==
  IF BigBitLength(m) <= MantissaBits THEN [m |-> m, e |-> e]
  ELSE [m |-> BigRoundShift(m, BigBitLength(m) - MantissaBits),
        e |-> e + (BigBitLength(m) - MantissaBits)]

\* n / d in doubles, for integers n >= 0 and 0 < d < 2^18: the quotient to
\* GuardBits bits and a sticky bit for the remainder, then rounded
GuardBits == MantissaBits + 15
DoubleQuotient(quot, e) ==
  Double(BigAdd(BigShiftLeft(quot.q, 1), BigOf(IF quot.rem = 0 THEN 0 ELSE 1)), e - 1)
DoubleDiv(n, d) == DoubleQuotient(BigDivSmall(BigShiftLeft(BigOf(n), GuardBits), d), -GuardBits)

\* the double of the decimal x / Scale
DoubleOf(x) == DoubleDiv(x, Scale)

\* x * y and x + y in doubles
DoubleMul(x, y) == Double(BigMul(x.m, y.m), x.e + y.e)
DoubleAdd(x, y) ==
  Double(BigAdd(BigShiftLeft(x.m, x.e - Min2(x.e, y.e)),
                BigShiftLeft(y.m, y.e - Min2(x.e, y.e))),
         Min2(x.e, y.e))

\* the sign of x - y
DoubleCmp(x, y) ==
  BigCmp(BigShiftLeft(x.m, x.e - Min2(x.e, y.e)), BigShiftLeft(y.m, y.e - Min2(x.e, y.e)))

\* round(x, ndigits) for a double x >= 0, in units of 10^(-ndigits): Python rounds
\* the exact value of the double, halves to the even digit
RoundDouble(x, ndigits) ==
  IF x.e >= 0 THEN BigToInt(BigShiftLeft(BigMulSmall(x.m, 10 ^ ndigits), x.e))
  ELSE BigToInt(BigRoundShift(BigMulSmall(x.m, 10 ^ ndigits), -x.e))

\* the nearest number of 1/Scale to a double
FxOf(x) == RoundDouble(x, 4)

\* ------------------------------------------------------------------ elementary functions
\* floor of the square root of n >= 0, by bisection on lo..hi
RECURSIVE ISqrtIn(_, _, _)
ISqrtIn(n, lo, hi) ==
  IF lo >= hi THEN lo
  ELSE LET mid == (lo + hi + 1) \div 2
       IN  IF mid * mid <= n THEN ISqrtIn(n, mid, hi) ELSE ISqrtIn(n, lo, mid - 1)

\* x ** 0.5
Sqrt(x) == ISqrtIn(x * Scale, 0, 46340)

\* math.log, math.cos, math.sin and math.sqrt inside random.gauss and
\* random.expovariate are computed to eight decimal digits: a real x is the
\* integer x * Fine
Fine == Scale * Scale

\* a * b for a, b in units of 1/Fine
FineMulAbs(a, b) ==
  (a \div Scale) * (b \div Scale)
  + RoundDiv((a \div Scale) * (b % Scale) + (a % Scale) * (b \div Scale)
             + RoundDiv((a % Scale) * (b % Scale), Scale), Scale)
FineMul(a, b) ==
  IF (a < 0) = (b < 0) THEN FineMulAbs(Abs(a), Abs(b)) ELSE -FineMulAbs(Abs(a), Abs(b))

\* n / d in units of 1/Fine, for integers |n| <= 2 * Scale and 0 < d <= 3 * Scale
FineDiv(n, d) == ((n * Scale) \div d) * Scale + RoundDiv(((n * Scale) % d) * Scale, d)

\* math.sqrt(x) in units of 1/Scale, for x in units of 1/Fine
FineSqrt(x) ==
  LET q == ISqrtIn(x, 0, 46340) IN IF x - q * q > q THEN q + 1 ELSE q

\* c * g in units of 1/Scale, for c in units of 1/Fine and g >= 0 in units of 1/Scale
FineScaled(c, g) ==
  LET p == RoundDiv((Abs(c) \div Scale) * g + RoundDiv((Abs(c) % Scale) * g, Scale), Scale)
  IN  IF c < 0 THEN -p ELSE p

\* x * 2^k for the least k that brings x >= 1 (units of 1/Scale) to 1/sqrt(2) or above
RECURSIVE LogReduce(_, _)
LogReduce(x, k) == IF x >= 7071 THEN [m |-> x, k |-> k] ELSE LogReduce(2 * x, k + 1)

\* 2 * atanh(y) by its series, y in units of 1/Fine, |y| < 0.18
LogSeries(y) ==
  LET y2 == FineMul(y, y)
      y3 == FineMul(y2, y)
      y5 == FineMul(y3, y2)
      y7 == FineMul(y5, y2)
      y9 == FineMul(y7, y2)
  IN  2 * (y + RoundDiv(y3, 3) + RoundDiv(y5, 5) + RoundDiv(y7, 7) + RoundDiv(y9, 9))

\* math.log(x) in units of 1/Fine, for 0 < x <= 1 in units of 1/Scale:
\* log(m * 2^-k) = 2 * atanh((m - 1) / (m + 1)) - k * log(2)
LogReduced(red) == LogSeries(FineDiv(red.m - Scale, red.m + Scale)) - red.k * 69314718
Log(x) == LogReduced(LogReduce(x, 0))

\* math.cos(t) and math.sin(t) by their series, t in [0, pi/4] in units of 1/Fine
CosSeries(t) ==
  LET t2 == FineMul(t, t)
      t4 == FineMul(t2, t2)
      t6 == FineMul(t4, t2)
      t8 == FineMul(t4, t4)
  IN  Fine - RoundDiv(t2, 2) + RoundDiv(t4, 24) - RoundDiv(t6, 720) + RoundDiv(t8, 40320)
SinSeries(t) ==
  LET t2 == FineMul(t, t)
      t3 == FineMul(t2, t)
      t5 == FineMul(t3, t2)
      t7 == FineMul(t5, t2)
      t9 == FineMul(t7, t2)
  IN  t - RoundDiv(t3, 6) + RoundDiv(t5, 120) - RoundDiv(t7, 5040) + RoundDiv(t9, 362880)

\* f quarter turns as an angle: f * pi / 2 in units of 1/Fine, f in units of 1/Scale
QuarterTurns(f) == f * 15707 + RoundDiv(f * 963, 1000)

\* <<cos, sin>> of f quarter turns, 0 <= f < 1: past half of the quarter the
\* complementary angle is used
CosSinQuarter(f) ==
  IF 2 * f <= Scale
  THEN <<CosSeries(QuarterTurns(f)), SinSeries(QuarterTurns(f))>>
  ELSE <<SinSeries(QuarterTurns(Scale - f)), CosSeries(QuarterTurns(Scale - f))>>

\* <<cos, sin>> of the angle q quarter turns past the one with <<cos, sin>> = cs
CosSinTurned(q, cs) ==
  CASE q = 0 -> cs
    [] q = 1 -> <<-cs[2], cs[1]>>
    [] q = 2 -> <<-cs[1], -cs[2]>>
    [] OTHER -> <<cs[2], -cs[1]>>

\* <<math.cos(x * TWOPI), math.sin(x * TWOPI)>> in units of 1/Fine, for
\* 0 <= x < 1 in units of 1/Scale
CosSinTurn(x) == CosSinTurned((4 * x) \div Scale, CosSinQuarter((4 * x) % Scale))

\* ------------------------------------------------------------------ random
\* The module-level generator of Python's random. Its state rng is a position p
\* of RngStates and the attribute gauss_next, kept in one number
\* p + RngModulus * g: g = 0 when gauss_next is None, else g is the cached
\* deviate (units of 1/Scale) plus GaussBias. A draw returns the position as a
\* number of [0, 1) and advances it; random.seed sets the position and clears
\* gauss_next.
RngModulus == Scale
RngStates == 0 .. (RngModulus - 1)
GaussBias == 5 * Scale
Position(r) == r % RngModulus
GaussNext(r) == r \div RngModulus
RngStep(r) == ((21 * Position(r) + 1) % RngModulus) + RngModulus * GaussNext(r)

\* random.random(): [v, rng]
Random(r) == [v |-> Position(r), rng |-> RngStep(r)]

\* random.uniform(a, b) = a + (b - a) * random()
Uniform(a, b, r) == [v |-> a + Mul(b - a, Position(r)), rng |-> RngStep(r)]

\* random.uniform(a, b) as the double it is, for a and b - a that are doubles
\* exactly; the draw is the double Position(r) / RngModulus: [v, rng]
UniformDouble(a, b, r) ==
  [v |-> DoubleAdd(DoubleOf(a),
                   DoubleMul(DoubleOf(b - a), DoubleDiv(Position(r), RngModulus))),
   rng |-> RngStep(r)]

\* random.choice(seq): a uniformly drawn element
Choice(seq, r) ==
  [v |-> seq[((Position(r) * Len(seq)) \div RngModulus) + 1], rng |-> RngStep(r)]

\* itertools.accumulate(weights): the running sums, in doubles
RECURSIVE Accumulate(_, _, _)
Accumulate(weights, k, sum) ==
  IF k > Len(weights) THEN <<>>
  ELSE <<DoubleAdd(sum, DoubleOf(weights[k]))>>
       \o Accumulate(weights, k + 1, DoubleAdd(sum, DoubleOf(weights[k])))

\* bisect.bisect(a, x, lo, hi): indices count from 0
RECURSIVE Bisect(_, _, _, _)
Bisect(a, x, lo, hi) ==
  IF lo >= hi THEN lo
  ELSE IF DoubleCmp(x, a[((lo + hi) \div 2) + 1]) < 0 THEN Bisect(a, x, lo, (lo + hi) \div 2)
  ELSE Bisect(a, x, ((lo + hi) \div 2) + 1, hi)

\* random.choices(population, weights)[0]:
\* population[bisect(cum_weights, random() * total, 0, n - 1)]
ChoicesAt(population, cum_weights, r) ==
  [v |-> population[Bisect(cum_weights,
                           DoubleMul(DoubleDiv(Position(r), RngModulus),
                                     cum_weights[Len(cum_weights)]),
                           0, Len(population) - 1) + 1],
   rng |-> RngStep(r)]
Choices(population, weights, r) ==
  ChoicesAt(population, Accumulate(weights, 1, DoubleOf(0)), r)

\* random.expovariate(lambd) = -log(1.0 - random()) / lambd
Expovariate(lambd, r) ==
  [v |-> Div(RoundDiv(-Log(Scale - Position(r)), Scale), lambd), rng |-> RngStep(r)]

\* random.gauss, gauss_next being None: x2pi = random() * TWOPI and
\* g2rad = sqrt(-2.0 * log(1.0 - random())); z = cos(x2pi) * g2rad is returned
\* and sin(x2pi) * g2rad is kept in gauss_next
BoxMuller(mu, sigma, x, y) ==
  LET cs == CosSinTurn(x.v)
      g2rad == FineSqrt(-2 * Log(Scale - y.v))
  IN  [v |-> mu + Mul(sigma, FineScaled(cs[1], g2rad)),
       rng |-> Position(y.rng) + RngModulus * (FineScaled(cs[2], g2rad) + GaussBias)]

\* random.gauss(mu, sigma): z = self.gauss_next; self.gauss_next = None; two
\* draws if z is None; return mu + z * sigma
Gauss(mu, sigma, r) ==
  IF GaussNext(r) # 0
  THEN [v |-> mu + Mul(sigma, GaussNext(r) - GaussBias), rng |-> Position(r)]
  ELSE BoxMuller(mu, sigma, Random(r), Random(RngStep(r)))

\* ------------------------------------------------------------------ tasks
\* Task(task_id, app_type, size_mb, priority)
Task(task_id, app_type, size_mb, priority) ==
  [task_id |-> task_id, app_type |-> app_type, size_mb |-> size_mb, priority |-> priority]

\* ------------------------------------------------------------------ simulators
\* A simulator object: its class and, for Simu5GAdapter, its _seeded flag.
\* The classes of sim_interface.py are "basic" (NetworkSimulator), "fiveg"
\* (FiveGDistributedSimulator) and "simu5g" (Simu5GAdapter). The others are
\* caller-supplied objects: "raising" raises on every query, "legacy" takes the
\* two positional arguments only, "typeerror" raises TypeError on every query,
\* "flaky" raises on some queries, "noattr" has no simulate_latency.
SimObject(kind) == [kind |-> kind, seeded |-> FALSE]
NoSim == SimObject("None")
RepoSimKinds == {"basic", "fiveg", "simu5g"}
FaultySimKinds == {"raising", "legacy", "typeerror", "flaky", "noattr"}

\* NetworkSimulator.__init__ defaults (seconds)
base_edge_latency == Fx(2, 1000)
base_cloud_latency == Fx(8, 1000)

\* what a query returns: a value, or the exception it raises
Returned(v, sim, r) == [status |-> "ok", v |-> v, sim |-> sim, rng |-> r]
Raised(exc, sim, r) == [status |-> exc, v |-> 0, sim |-> sim, rng |-> r]

\* variant: one base latency for every node type
BaseLatencyFlat(node_type) == base_edge_latency

\* NetworkSimulator.simulate_latency: the base latency of a node type
BaseLatency(node_type) ==
  IF Lower(node_type) \in {"edge", "0"} THEN base_edge_latency ELSE base_cloud_latency

\* NetworkSimulator.simulate_latency: the app-specific jitter, [v, rng]
Jitter(app, r) ==
  CASE app = "IOT" -> Uniform(Fx(1, 10000), Fx(5, 10000), r)
    [] app = "ARVR" -> Uniform(Fx(1, 1000), Fx(2, 1000), r)
    [] app = "VANET" -> Uniform(Fx(5, 10000), Fx(1, 1000), r)
    [] OTHER -> Uniform(Fx(1, 10000), Fx(1, 1000), r)

\* NetworkSimulator.simulate_latency: return base + jitter
BasePlusJitter(sim, base, jitter) == Returned(base + jitter.v, sim, jitter.rng)

\* NetworkSimulator.simulate_latency
BasicSimulateLatency(sim, node_type, app_type, r) ==
  BasePlusJitter(sim, BaseLatency(node_type), Jitter(Upper(app_type), r))

\* FiveGDistributedSimulator.__init__ defaults
base_edge_ms == Fx(4, 1)
base_cloud_ms == Fx(20, 1)
interference_prob == Fx(1, 10)
fading_var == Fx(2, 1)

\* variant: the penalty is not clamped at zero
ChannelPenaltyUnclamped(fading, interference, r) == [v |-> fading + interference, rng |-> r]

\* _calculate_channel_conditions: return max(0.0, fading + interference)
ChannelPenalty(fading, interference, r) == [v |-> Max2(0, fading + interference), rng |-> r]

ChannelPenaltyBurst(fading, burst) == ChannelPenalty(fading, burst.v, burst.rng)

\* _calculate_channel_conditions: the interference burst, given the draw u that
\* decides whether there is one
Interference(fading, u) ==
  IF u.v < interference_prob
  THEN ChannelPenaltyBurst(fading, Uniform(Fx(5, 1), Fx(15, 1), u.rng))
  ELSE ChannelPenalty(fading, 0, u.rng)

\* FiveGDistributedSimulator._calculate_channel_conditions: [v, rng]
AfterFading(fading) == Interference(fading.v, Random(fading.rng))
CalculateChannelConditions(r) == AfterFading(Gauss(0, fading_var, r))

\* variant: the transmission delay of one megabyte, whatever the size
TxDelayOfOne(task_size_mb, load) ==
  Div(Fx(1, 1) * 8, Max2(Scale, Mul(Fx(20, 1), Scale - Mul(Fx(1, 2), load)))) * 1000

\* latency_ms: the transmission delay (ms) under a normalised load
TxDelay(task_size_mb, load) ==
  Div(task_size_mb * 8, Max2(Scale, Mul(Fx(20, 1), Scale - Mul(Fx(1, 2), load)))) * 1000

\* latency_ms: the edge and the cloud formulas
FiveGEdge(load, tx_delay, phy) ==
  [v |-> base_edge_ms + tx_delay + phy.v + load * 10, rng |-> phy.rng]
FiveGCloud(load, tx_delay, backbone) ==
  [v |-> base_cloud_ms + backbone.v + tx_delay + load * 5, rng |-> backbone.rng]
FiveGByType(t, load, tx_delay, phy) ==
  IF ContainsEdge(t) THEN FiveGEdge(load, tx_delay, phy)
  ELSE FiveGCloud(load, tx_delay, Uniform(Fx(10, 1), Fx(30, 1), phy.rng))

\* FiveGDistributedSimulator.latency_ms: [v, rng]
FiveGLatencyMs(node_type, load, task_size_mb, r) ==
  FiveGByType(Lower(node_type), Max2(0, Min2(Scale, load)),
              TxDelay(task_size_mb, Max2(0, Min2(Scale, load))),
              CalculateChannelConditions(r))

\* variant: the load is not clamped
NormalizedLoadUnclamped(node_load) == RoundDiv(node_load, 100)

\* node_load / 100.0 clamped to [0, 1]
NormalizedLoad(node_load) == Min2(Scale, Max2(0, RoundDiv(node_load, 100)))

\* latency_ms / 1000.0
MsToSeconds(sim, ms) == Returned(RoundDiv(ms.v, 1000), sim, ms.rng)

\* FiveGDistributedSimulator.simulate_latency
FiveGSimulateLatency(sim, node_type, task_size_mb, node_load, r) ==
  MsToSeconds(sim, FiveGLatencyMs(node_type, NormalizedLoad(node_load), task_size_mb, r))

\* Simu5GAdapter.latency_ms: the edge and the cloud formulas, clamped at 1 ms
Simu5GEdge(load_penalty, noise, size_effect) ==
  [v |-> Max2(Fx(1, 1), Fx(45, 10) + load_penalty + noise.v + size_effect),
   rng |-> noise.rng]
Simu5GCloud(load_penalty, noise, size_effect, backbone) ==
  [v |-> Max2(Fx(1, 1), Fx(22, 1) + backbone.v + load_penalty + noise.v + size_effect),
   rng |-> backbone.rng]
Simu5GByType(t, load_penalty, noise, size_effect) ==
  IF ContainsEdge(t) THEN Simu5GEdge(load_penalty, noise, size_effect)
  ELSE Simu5GCloud(load_penalty, noise, size_effect,
                   Uniform(Fx(10, 1), Fx(30, 1), noise.rng))

\* Simu5GAdapter._seed: the generator after it; the clock seeds it on the first query
Seeded(sim, r, clock) == IF sim.seeded THEN r ELSE clock

\* Simu5GAdapter.latency_ms: [v, rng]
Simu5GLatencyMs(sim, node_type, load, task_size_mb, r, clock) ==
  Simu5GByType(Lower(node_type), 25 * load,
               Uniform(-Fx(15, 10), Fx(15, 10), Seeded(sim, r, clock)),
               Mul(Fx(1, 2), Sqrt(task_size_mb)))

\* Simu5GAdapter.simulate_latency
Simu5GSimulateLatency(sim, node_type, task_size_mb, node_load, r, clock) ==
  MsToSeconds([sim EXCEPT !.seeded = TRUE],
              Simu5GLatencyMs(sim, node_type, NormalizedLoad(node_load), task_size_mb,
                              r, clock))

\* a caller's simulator that raises on some queries
FlakySimulateLatency(sim, node_type, app_type, coin) ==
  IF coin.v < Fx(1, 2) THEN Raised("RuntimeError", sim, coin.rng)
  ELSE BasicSimulateLatency(sim, node_type, app_type, coin.rng)

\* sim.simulate_latency(node_type, app_type, task_size_mb, node_load)
Query(sim, node_type, app_type, task_size_mb, node_load, r, clock) ==
  CASE sim.kind = "basic" -> BasicSimulateLatency(sim, node_type, app_type, r)
    [] sim.kind = "fiveg" ->
         FiveGSimulateLatency(sim, node_type, task_size_mb, node_load, r)
    [] sim.kind = "simu5g" ->
         Simu5GSimulateLatency(sim, node_type, task_size_mb, node_load, r, clock)
    [] sim.kind = "legacy" -> BasicSimulateLatency(sim, node_type, app_type, r)
    [] sim.kind = "flaky" -> FlakySimulateLatency(sim, node_type, app_type, Random(r))
    [] sim.kind = "typeerror" -> Raised("TypeError", sim, r)
    [] OTHER -> Raised("RuntimeError", sim, r)

\* network_sim.simulate_latency(node_type, app_type, task_size_mb=..., node_load=...):
\* a simulator whose method takes two arguments raises TypeError
SimulateLatencyKeywords(sim, node_type, app_type, task_size_mb, node_load, r, clock) ==
  IF sim.kind = "legacy" THEN Raised("TypeError", sim, r)
  ELSE Query(sim, node_type, app_type, task_size_mb, node_load, r, clock)

\* network_sim.simulate_latency(node_type, app_type): task_size_mb = 1.0, node_load = 0.0
SimulateLatencyPositional(sim, node_type, app_type, r, clock) ==
  Query(sim, node_type, app_type, Fx(1, 1), 0, r, clock)

\* hasattr(network_sim, 'simulate_latency')
HasSimulateLatency(sim) == sim.kind # "noattr"

\* ------------------------------------------------------------------ nodes
\* Node.__init__
Node(node_id, node_type, capacity_mbps) ==
  [node_id |-> node_id,
   node_type |-> Lower(node_type),
   capacity_mbps |-> capacity_mbps,
   current_load |-> 0,
   name |-> <<Lower(node_type), node_id>>]

\* the latency substituted when a simulator cannot be queried (seconds)
FallbackLatency == Fx(1, 1000)

\* a variant of NoSimulatorLatency: the fallback
NoSimulatorLatencyFallback == FallbackLatency

\* net_latency = 0.0, which stands when no simulator is given (seconds)
NoSimulatorLatency == 0

\* the network latency of an execution: its value, the simulator and the
\* generator after it, whether an exception leaves execute_task (raised),
\* whether the simulator was queried, whether the query was repeated with two
\* arguments (retried), and whether the last query raised (failed)
Net(v, sim, r, queried, retried, failed) ==
  [v |-> v, sim |-> sim, rng |-> r, raised |-> FALSE, queried |-> queried,
   retried |-> retried, failed |-> failed]

\* a variant of Caught: the exception is not caught
CaughtNot(q, retried) ==
  [Net(FallbackLatency, q.sim, q.rng, TRUE, retried, TRUE) EXCEPT !.raised = TRUE]

\* execute_task: except Exception: net_latency = 0.001
Caught(q, retried) == Net(FallbackLatency, q.sim, q.rng, TRUE, retried, TRUE)

\* execute_task: the outcome of a query q is its value, or the fallback if it raised
NetOutcome(q, retried) ==
  IF q.status = "ok" THEN Net(q.v, q.sim, q.rng, TRUE, retried, FALSE)
  ELSE Caught(q, retried)

\* execute_task: except TypeError: the query is repeated with two arguments
AfterFirstQuery(node, task, first, clock) ==
  IF first.status = "TypeError"
  THEN NetOutcome(SimulateLatencyPositional(first.sim, node.node_type, task.app_type,
                                            first.rng, clock), TRUE)
  ELSE NetOutcome(first, FALSE)

\* Node.execute_task, node_load=self.current_load: the load the simulator is given
QueryLoad(node, task) == node.current_load

\* Node.execute_task, the network latency
NetLatency(node, task, network_sim, r, clock) ==
  IF network_sim = NoSim THEN Net(NoSimulatorLatency, network_sim, r, FALSE, FALSE, FALSE)
  ELSE IF ~HasSimulateLatency(network_sim)
    THEN Net(FallbackLatency, network_sim, r, FALSE, FALSE, FALSE)
  ELSE AfterFirstQuery(node, task,
                       SimulateLatencyKeywords(network_sim, node.node_type, task.app_type,
                                               task.size_mb, QueryLoad(node, task), r,
                                               clock),
                       clock)

\* a variant of ProcessingTime: floor division
ProcessingTimeFloor(size_mb, capacity_mbps) == (size_mb \div capacity_mbps) * Scale

\* Node.execute_task, the processing delay (seconds)
ProcessingTime(size_mb, capacity_mbps) == Div(size_mb, capacity_mbps)

\* a variant of PowerWatts: 50 W on "cloud" nodes only
PowerWattsCloudOnly(node_type) == IF node_type = "cloud" THEN 50 ELSE 10

\* Node.execute_task, the power drawn by a node of this type (watts)
PowerWatts(node_type) == IF node_type = "edge" THEN 10 ELSE 50

\* Node.execute_task, the energy of an execution (joules)
EnergyJoules(power_watts, total_latency_sec) == power_watts * total_latency_sec

\* a variant of LoadAfter: the size assigned, not added
LoadAfterAssigned(current_load, size_mb) == size_mb

\* Node.execute_task, the load after the task
LoadAfter(current_load, size_mb) == current_load + size_mb

\* Node.execute_task, from the processing time and the network latency on
Executed(node, task, processing_time, net) ==
  [raised |-> net.raised,
   node |-> IF net.raised THEN node
            ELSE [node EXCEPT !.current_load = LoadAfter(node.current_load, task.size_mb)],
   latency_ms |-> (processing_time + net.v) * 1000,
   energy_joules |-> EnergyJoules(PowerWatts(node.node_type), processing_time + net.v),
   processing_time |-> processing_time,
   net_latency |-> net.v,
   queried |-> net.queried,
   retried |-> net.retried,
   failed |-> net.failed,
   query_load |-> QueryLoad(node, task),
   sim |-> net.sim,
   rng |-> net.rng]

\* Node.execute_task: the node after the call, what it returns, and what became
\* of the simulator and of the generator
ExecuteTask(node, task, network_sim, r, clock) ==
  Executed(node, task, ProcessingTime(task.size_mb, node.capacity_mbps),
           NetLatency(node, task, network_sim, r, clock))

\* a variant of ResetLoad: the load left as it is
ResetLoadKeeps(node) == node

\* Node.reset_load
ResetLoad(node) == [node EXCEPT !.current_load = 0]

\* ------------------------------------------------------------------ policy
\* variant: the cloud feature carries the size of the task
GetFeaturesCloudBySize(state, action) ==
  LET prio_idx == state[2]
      size_mb == state[3]
      load_norm == state[4]
      cloud_idx == 1
  IN  << Fx(1, 1),
         IF action = cloud_idx THEN RoundDiv(size_mb, 10) ELSE 0,
         RoundDiv(size_mb, 10),
         load_norm,
         Mul(RoundDiv(size_mb, 10), load_norm),
         Fx(prio_idx, 2) >>

\* FeatureExtractor.get_features: [Bias, Is_Cloud, Size, Load, Size*Load, Priority]
GetFeatures(state, action) ==
  LET prio_idx == state[2]
      size_mb == state[3]
      load_norm == state[4]
      cloud_idx == 1
  IN  << Fx(1, 1),
         IF action = cloud_idx THEN Fx(1, 1) ELSE 0,
         RoundDiv(size_mb, 10),
         load_norm,
         Mul(RoundDiv(size_mb, 10), load_norm),
         Fx(prio_idx, 2) >>

\* RLBasedOrchestrator._get_state_raw: (app_idx, prio_idx, size_mb, load_norm)
GetStateRaw(task, edge_load, cloud_load) ==
  LET app == Lower(task.app_type)
      prio == Lower(task.priority)
      app_idx == CASE app = "iot" -> 0 [] app = "arvr" -> 1 [] app = "vanet" -> 2 [] OTHER -> 0
      prio_idx == CASE prio = "low" -> 0 [] prio = "medium" -> 1 [] prio = "high" -> 2
                    [] OTHER -> 0
      avg_load == RoundDiv(edge_load + cloud_load, 2)
      load_norm == Min2(Fx(1, 1), Max2(0, RoundDiv(avg_load, 100)))
  IN  <<app_idx, prio_idx, task.size_mb, load_norm>>

\* RLBasedOrchestrator._get_state: the raw state, unchanged
GetState(task, edge_load, cloud_load) == GetStateRaw(task, edge_load, cloud_load)

\* the Python types of the four components _get_state returns
StateTypes == <<"int", "int", "float", "float">>

\* np.dot of two vectors of six
Dot(w, f) ==
  Mul(w[1], f[1]) + Mul(w[2], f[2]) + Mul(w[3], f[3])
    + Mul(w[4], f[4]) + Mul(w[5], f[5]) + Mul(w[6], f[6])

\* RLBasedOrchestrator._get_q
GetQ(w, state, action) == Dot(w, GetFeatures(state, action))

\* variant: a tie goes to cloud
GreedyActionStrict(q_edge, q_cloud) == IF q_edge > q_cloud THEN 0 ELSE 1

\* the action of largest value, edge on a tie
GreedyAction(q_edge, q_cloud) == IF q_edge >= q_cloud THEN 0 ELSE 1

\* RLBasedOrchestrator.choose_action_greedy
ChooseActionGreedy(w, state) ==
  LET q_edge == GetQ(w, state, 0)
      q_cloud == GetQ(w, state, 1)
  IN  GreedyAction(q_edge, q_cloud)

\* variant: the draw may equal the rate
ExploresInclusive(u, eps) == u <= eps

\* random.random() < self.epsilon
Explores(u, eps) == u < eps

\* RLBasedOrchestrator.choose_action: [action, explored, rng]
ChooseAction(w, eps, state, r) ==
  LET u == Random(r)
      pick == Choice(<<0, 1>>, u.rng)
  IN  IF Explores(u.v, eps)
      THEN [action |-> pick.v, explored |-> TRUE, rng |-> pick.rng]
      ELSE [action |-> ChooseActionGreedy(w, state), explored |-> FALSE, rng |-> u.rng]

\* variant: the smaller of the two values of the next state
QNextMin(w, next_state) == Min2(GetQ(w, next_state, 0), GetQ(w, next_state, 1))

\* RLBasedOrchestrator.update_q, the value of the next state
QNextMax(w, next_state) == Max2(GetQ(w, next_state, 0), GetQ(w, next_state, 1))

\* RLBasedOrchestrator.update_q, the temporal-difference error
TdError(w, gam, state, action, reward, next_state) ==
  LET q_next_max == QNextMax(w, next_state)
      target == reward + Mul(gam, q_next_max)
      prediction == GetQ(w, state, action)
  IN  target - prediction

\* variant: the step is taken against the features
UpdateQDescent(w, alp, gam, state, action, reward, next_state) ==
  [k \in 1..6 |-> w[k] - Mul(Mul(alp, reward), GetFeatures(state, action)[k])]

\* RLBasedOrchestrator.update_q: the weights after the update
UpdateQ(w, alp, gam, state, action, reward, next_state) ==
  LET td_error == TdError(w, gam, state, action, reward, next_state)
      features == GetFeatures(state, action)
      step == Mul(alp, td_error)
  IN  [k \in 1..6 |-> w[k] + Mul(step, features[k])]

\* RLBasedOrchestrator.__init__: reward weights
w_latency == Fx(5, 1)
w_energy == Fx(1, 10)

\* variant of Reward: the sign is lost
RewardUnsigned(latency, energy) ==
  Mul(RoundDiv(latency, 100), w_latency) + Mul(energy, w_energy)

\* simulate_environment, the reward of an execution
Reward(latency, energy) ==
  -(Mul(RoundDiv(latency, 100), w_latency) + Mul(energy, w_energy))

\* simulate_environment, the exploration rate after an episode
EpsilonFloor == Fx(5, 100)
EpsilonDecay == Fx(99, 100)
\* variant: no floor
DecayEpsilonNoFloor(eps) == Mul(eps, EpsilonDecay)
\* variant: the rate is divided by the decay
DecayEpsilonGrowing(eps) == Max2(EpsilonFloor, Div(eps, EpsilonDecay))
DecayEpsilon(eps) == Max2(EpsilonFloor, Mul(eps, EpsilonDecay))

\* variant: only action 1 names the cloud node
NodeOfOneIsCloud(action) == IF action = 1 THEN "cloud" ELSE "edge"

\* RLBasedOrchestrator.assign_and_execute: the node an action names
NodeOf(action) == IF action = 0 THEN "edge" ELSE "cloud"

\* ------------------------------------------------------------------ persistence
\* the paths callers pass, and the file names they stand for on disk
WeightPaths == {"w.npy", "w", "corrupt.npy", "missing.npy"}

\* what a path holds: nothing, an array written by np.save, or bytes np.load
\* cannot read
Missing == [kind |-> "missing"]
Garbage == [kind |-> "garbage"]
NpyArray(w) == [kind |-> "npy", shape |-> Len(w), data |-> w]

\* train_rl.py: OUT_WEIGHTS, and the path main.py saves to and loads from
OUT_WEIGHTS == "data/rl_weights.npy"

\* the disk before the program runs
InitialFiles ==
  [p \in WeightPaths \cup {OUT_WEIGHTS} |-> IF p = "corrupt.npy" THEN Garbage ELSE Missing]

\* np.save(path, ...): ".npy" is appended to a path that does not end with it
NpyName(path) == CASE path = "w" -> "w.npy" [] OTHER -> path

\* np.load's array as the six weights
LoadedArray(content) == [k \in 1..content.shape |-> content.data[k]]

\* RLBasedOrchestrator.save_weights: the disk after np.save(path, self.weights)
SaveWeights(disk, path, w) == [disk EXCEPT ![NpyName(path)] = NpyArray(w)]

\* variant of LoadWeights: the weights are cleared before the file is read
LoadWeightsClearing(disk, path, w) ==
  IF disk[path].kind = "npy"
  THEN [ret |-> TRUE, raised |-> FALSE, weights |-> LoadedArray(disk[path])]
  ELSE [ret |-> FALSE, raised |-> FALSE, weights |-> [k \in 1..6 |-> 0]]

\* RLBasedOrchestrator.load_weights: np.load(path) raises on a missing or
\* unreadable file, before self.weights is assigned; the exception is caught
LoadWeights(disk, path, w) ==
  IF disk[path].kind = "npy"
  THEN [ret |-> TRUE, raised |-> FALSE, weights |-> LoadedArray(disk[path])]
  ELSE [ret |-> FALSE, raised |-> FALSE, weights |-> w]

\* ------------------------------------------------------------------ bounds
MaxCalls == 2
MaxEpisodes == 2
MaxTasks == 2

\* the tasks callers submit: Task(id, app, size in MB, priority)
CallTasks ==
  { Task(1, "IoT", Fx(1, 2), "low"),
    Task(2, "ARVR", Fx(10, 1), "high"),
    Task(3, "VANET", Fx(5, 1), "medium") }

\* the states of the generator the runs start from, and the clock readings
\* Simu5GAdapter may seed it with
Seeds == {0, 4711, 9000}
TimeSeeds == {1234, 7777}
ClockReadings(s) == IF s.kind = "simu5g" /\ ~s.seeded THEN TimeSeeds ELSE {0}

\* ------------------------------------------------------------------ state
VARIABLES
  edge, cloud,        \* self.edge, self.cloud: the two nodes
  sim,                \* self.sim: the simulator object
  episodes, epsilon, alpha, gamma,   \* the hyperparameters
  weights,            \* self.weights
  rng,                \* the state of the random module's generator
  pc,                 \* where simulate_environment stands ("idle": not running)
  num_tasks, ep, i,   \* simulate_environment: its argument and loop counters
  episode_reward, total_rewards,     \* simulate_environment: its accumulators
  last,               \* the latest call: its arguments, effect and result
  calls,              \* calls made by the caller so far
  executions, updates,  \* execute_task and update_q calls made by the current run
  config,             \* the generator state at the entry of the latest run (seed) and
                      \* the constructor arguments
  runs,               \* the results of the runs of simulate_environment that returned
  files,              \* the files on disk: what each path holds
  evaluation          \* the evaluation pass of the running script: its phase, tasks, records

vars == <<edge, cloud, sim, episodes, epsilon, alpha, gamma, weights, rng, pc,
          num_tasks, ep, i, episode_reward, total_rewards, last, calls,
          executions, updates, config, runs, files, evaluation>>

orch == <<episodes, epsilon, alpha, gamma, weights>>
loop == <<num_tasks, ep, i, episode_reward, total_rewards, executions, updates>>
started == <<config, runs, files, evaluation>>

NodeAt(which) == IF which = "edge" THEN edge ELSE cloud

\* no evaluation pass has begun
NoEvaluation ==
  [phase |-> "none", strategy |-> "none", done |-> 0, tasks |-> <<>>, results |-> <<>>,
   start_loads |-> <<0, 0>>]

\* the nodes an orchestrator is built with: the defaults Node(0, "edge", 2.0) and
\* Node(1, "cloud", 8.0), or the caller's
EdgeNodes == {Node(0, "edge", Fx(2, 1)), Node(7, "EDGE", Fx(4, 1))}
CloudNodes == {Node(1, "cloud", Fx(8, 1)), Node(3, "fog", Fx(5, 1))}

\* RLBasedOrchestrator.__init__ with its default hyperparameters; the caller
\* chooses the nodes, the simulator, the episode count and the exploration rate
InitOrchestrator(edges, clouds, simKinds, episodeCounts, epsilons, gammas, seeds) ==
  /\ edge \in edges
  /\ cloud \in clouds
  /\ sim \in {SimObject(k) : k \in simKinds}
  /\ episodes \in episodeCounts
  /\ epsilon \in epsilons
  /\ alpha = Fx(1, 100)
  /\ gamma \in gammas
  /\ weights = [k \in 1..6 |-> 0]
  /\ rng \in seeds
  /\ pc = "idle"
  /\ num_tasks = 0 /\ ep = 0 /\ i = 0
  /\ episode_reward = 0 /\ total_rewards = <<>>
  /\ last = [op |-> "init"]
  /\ calls = 0
  /\ executions = 0 /\ updates = 0
  /\ config = [seed |-> rng, edge |-> edge, cloud |-> cloud, sim |-> sim,
               episodes |-> episodes, epsilon |-> epsilon, gamma |-> gamma]
  /\ runs = <<>>
  /\ files = InitialFiles
  /\ evaluation = NoEvaluation

\* ------------------------------------------------------------------ node calls
\* what a call of execute_task leaves in last
ExecutionRecord(which, before, task, network_sim, res) ==
  [op |-> "execute_task", which |-> which, before |-> before, after |-> res.node,
   task |-> task, network_sim |-> network_sim, raised |-> res.raised,
   latency_ms |-> res.latency_ms, energy_joules |-> res.energy_joules,
   processing_time |-> res.processing_time, net_latency |-> res.net_latency,
   queried |-> res.queried, retried |-> res.retried, failed |-> res.failed,
   query_load |-> res.query_load]

\* node.execute_task(task) and node.execute_task(task, network_sim=self.sim)
ExecuteTaskCall(which, task, withSim) ==
  /\ pc = "idle" /\ calls < MaxCalls
  /\ \E network_sim \in {IF withSim THEN sim ELSE NoSim} :
     \E clock \in ClockReadings(network_sim) :
     \E res \in {ExecuteTask(NodeAt(which), task, network_sim, rng, clock)} :
       /\ edge' = IF which = "edge" THEN res.node ELSE edge
       /\ cloud' = IF which = "cloud" THEN res.node ELSE cloud
       /\ sim' = IF withSim THEN res.sim ELSE sim
       /\ rng' = res.rng
       /\ last' = ExecutionRecord(which, NodeAt(which), task, network_sim, res)
  /\ calls' = calls + 1
  /\ UNCHANGED <<orch, loop, pc, started>>

\* node.reset_load()
ResetLoadCall(which) ==
  /\ pc = "idle" /\ calls < MaxCalls
  /\ edge' = IF which = "edge" THEN ResetLoad(edge) ELSE edge
  /\ cloud' = IF which = "cloud" THEN ResetLoad(cloud) ELSE cloud
  /\ last' = [op |-> "reset_load", which |-> which, before |-> NodeAt(which),
              after |-> ResetLoad(NodeAt(which))]
  /\ calls' = calls + 1
  /\ UNCHANGED <<sim, orch, rng, loop, pc, started>>

\* ------------------------------------------------------------------ training
\* simulate_environment: prio_map
PrioMap(app) ==
  CASE app = "IoT" -> <<"low", "low", "low", "low", "low", "low",
                        "medium", "medium", "medium", "high">>
    [] app = "ARVR" -> <<"low", "low", "medium", "medium", "medium", "medium", "medium",
                         "high", "high", "high">>
    [] OTHER -> <<"low", "low", "low", "medium", "medium", "medium", "medium", "medium",
                  "high", "high">>

\* simulate_environment: the size range of an application (MB)
SizeOf(app, r) ==
  CASE app = "IoT" -> UniformDouble(Fx(1, 2), Fx(3, 1), r)
    [] app = "ARVR" -> UniformDouble(Fx(5, 1), Fx(12, 1), r)
    [] OTHER -> UniformDouble(Fx(2, 1), Fx(8, 1), r)

\* round(size, 3) of the double size, in units of 1/Scale
Round3(size) == 10 * RoundDouble(size, 3)

\* simulate_environment: the task of a step, drawn app, priority, size: [task, rng]
GenTask(task_id, r) ==
  LET app == Choice(<<"IoT", "ARVR", "VANET">>, r)
      prio == Choice(PrioMap(app.v), app.rng)
      size == SizeOf(app.v, prio.rng)
  IN  [task |-> Task(task_id, app.v, Round3(size.v), prio.v), rng |-> size.rng]

\* simulate_environment: the next task, drawn app, size, priority: [task, rng]
GenNextTask(task_id, r) ==
  LET next_app == Choice(<<"IoT", "ARVR", "VANET">>, r)
      next_size == SizeOf(next_app.v, next_app.rng)
      next_prio == Choice(PrioMap(next_app.v), next_size.rng)
  IN  [task |-> Task(task_id, next_app.v, Round3(next_size.v), next_prio.v),
       rng |-> next_prio.rng]

\* orch.simulate_environment(num_tasks): entry
SimulateEnvironment(n) ==
  /\ pc = "idle" /\ calls < MaxCalls
  /\ pc' = "episodes"
  /\ num_tasks' = n /\ ep' = 0 /\ i' = 0
  /\ episode_reward' = 0 /\ total_rewards' = <<>>
  /\ executions' = 0 /\ updates' = 0
  /\ last' = [op |-> "simulate_environment", num_tasks |-> n]
  /\ calls' = calls + 1
  /\ config' = [config EXCEPT !.seed = rng]
  /\ UNCHANGED <<edge, cloud, sim, orch, rng, runs, files, evaluation>>

\* for ep in range(self.episodes): the head of an episode
EpisodeStart ==
  /\ pc = "episodes" /\ ep < episodes
  /\ episode_reward' = 0
  /\ edge' = ResetLoad(edge)
  /\ cloud' = ResetLoad(cloud)
  /\ i' = 0
  /\ pc' = "tasks"
  /\ last' = [op |-> "episode_start", ep |-> ep, before |-> <<edge, cloud>>]
  /\ UNCHANGED <<sim, orch, rng, num_tasks, ep, total_rewards, calls, executions, updates,
                 started>>

\* for i in range(num_tasks): one task generated, placed, executed and learnt from
TrainStep ==
  /\ pc = "tasks" /\ i < num_tasks
  /\ \E clock \in ClockReadings(sim) :
     \E gen \in {GenTask(i, rng)} :
     \E state \in {GetStateRaw(gen.task, edge.current_load, cloud.current_load)} :
     \E choice \in {ChooseAction(weights, epsilon, state, gen.rng)} :
     \E which \in {NodeOf(choice.action)} :
     \E res \in {ExecuteTask(NodeAt(which), gen.task, sim, choice.rng, clock)} :
     \E edge1 \in {IF which = "edge" THEN res.node ELSE edge} :
     \E cloud1 \in {IF which = "cloud" THEN res.node ELSE cloud} :
     \E reward \in {Reward(res.latency_ms, res.energy_joules)} :
     \E nxt \in {GenNextTask(i + 1, res.rng)} :
     \E next_state \in {GetStateRaw(nxt.task, edge1.current_load, cloud1.current_load)} :
       /\ edge' = edge1
       /\ cloud' = cloud1
       /\ sim' = res.sim
       /\ last' = [ExecutionRecord(which, NodeAt(which), gen.task, sim, res)
                     EXCEPT !.op = "train_step"]
       /\ IF res.raised
          THEN /\ pc' = "crashed"
               /\ rng' = res.rng
               /\ UNCHANGED <<weights, episode_reward, i, executions, updates>>
          ELSE /\ pc' = pc
               /\ rng' = nxt.rng
               /\ weights' = UpdateQ(weights, alpha, gamma, state, choice.action, reward,
                                     next_state)
               /\ episode_reward' = episode_reward + reward
               /\ i' = i + 1
               /\ executions' = executions + 1
               /\ updates' = updates + 1
  /\ UNCHANGED <<episodes, epsilon, alpha, gamma, num_tasks, ep, total_rewards, calls,
                 started>>

\* variant of EpisodeEnd: the episode's total is not recorded
EpisodeEndUnrecorded ==
  /\ pc = "tasks" /\ i = num_tasks
  /\ epsilon' = DecayEpsilon(epsilon)
  /\ ep' = ep + 1
  /\ pc' = "episodes"
  /\ last' = [op |-> "episode_end", ep |-> ep]
  /\ UNCHANGED <<edge, cloud, sim, episodes, alpha, gamma, weights, rng, num_tasks, i,
                 episode_reward, total_rewards, calls, executions, updates, started>>

\* the tail of an episode: the total is recorded and epsilon decays
EpisodeEnd ==
  /\ pc = "tasks" /\ i = num_tasks
  /\ total_rewards' = Append(total_rewards, episode_reward)
  /\ epsilon' = DecayEpsilon(epsilon)
  /\ ep' = ep + 1
  /\ pc' = "episodes"
  /\ last' = [op |-> "episode_end", ep |-> ep]
  /\ UNCHANGED <<edge, cloud, sim, episodes, alpha, gamma, weights, rng, num_tasks, i,
                 episode_reward, calls, executions, updates, started>>

\* return 0, total_rewards
SimulateEnvironmentReturn ==
  /\ pc = "episodes" /\ ep = episodes
  /\ pc' = "idle"
  /\ last' = [op |-> "simulate_environment_return", ret |-> <<0, total_rewards>>,
              episodes_run |-> ep]
  /\ runs' = Append(runs, [num_tasks |-> num_tasks, total_rewards |-> total_rewards,
                            weights |-> weights, seed |-> config.seed])
  /\ UNCHANGED <<edge, cloud, sim, orch, rng, loop, calls, config, files, evaluation>>

\* ------------------------------------------------------------------ the node cost model
\* Task executions on the two nodes, directly and inside training runs.
InitEnv ==
  InitOrchestrator(EdgeNodes, CloudNodes, RepoSimKinds \cup FaultySimKinds,
                   {MaxEpisodes}, {Fx(3, 10)}, {Fx(9, 10)}, Seeds)

NextEnv ==
  \/ \E which \in {"edge", "cloud"}, task \in CallTasks, withSim \in BOOLEAN :
       ExecuteTaskCall(which, task, withSim)
  \/ \E which \in {"edge", "cloud"} : ResetLoadCall(which)
  \/ \E n \in 1..MaxTasks : SimulateEnvironment(n)
  \/ EpisodeStart
  \/ TrainStep
  \/ EpisodeEnd
  \/ SimulateEnvironmentReturn

SpecEnv == InitEnv /\ [][NextEnv]_vars

\* ------------------------------------------------------------------ policy calls
\* the states callers query and update: _get_state of a task under given loads
PolicyStates ==
  { GetStateRaw(Task(1, "IoT", Fx(1, 1), "high"), 0, 0),
    GetStateRaw(Task(2, "ARVR", Fx(5, 1), "medium"), Fx(10, 1), Fx(20, 1)),
    GetStateRaw(Task(3, "VANET", Fx(8, 1), "low"), Fx(150, 1), Fx(90, 1)) }
CallRewards == {-Fx(100, 1), -Fx(5, 2), Fx(5, 1)}

\* orch.choose_action(state)
ChooseActionCall(state) ==
  /\ pc = "idle" /\ calls < MaxCalls
  /\ \E res \in {ChooseAction(weights, epsilon, state, rng)} :
       /\ rng' = res.rng
       /\ last' = [op |-> "choose_action", state |-> state, action |-> res.action,
                   explored |-> res.explored, draw |-> rng]
  /\ calls' = calls + 1
  /\ UNCHANGED <<edge, cloud, sim, orch, loop, pc, started>>

\* orch.choose_action_greedy(state)
ChooseActionGreedyCall(state) ==
  /\ pc = "idle" /\ calls < MaxCalls
  /\ last' = [op |-> "choose_action_greedy", state |-> state,
              action |-> ChooseActionGreedy(weights, state)]
  /\ calls' = calls + 1
  /\ UNCHANGED <<edge, cloud, sim, orch, rng, loop, pc, started>>

\* orch.update_q(state, action, reward, next_state)
UpdateQCall(state, action, reward, next_state) ==
  /\ pc = "idle" /\ calls < MaxCalls
  /\ weights' = UpdateQ(weights, alpha, gamma, state, action, reward, next_state)
  /\ last' = [op |-> "update_q", state |-> state, action |-> action, reward |-> reward,
              next_state |-> next_state, before |-> weights]
  /\ calls' = calls + 1
  /\ UNCHANGED <<edge, cloud, sim, episodes, epsilon, alpha, gamma, rng, loop, pc,
                 started>>

\* The placement policy called directly: action selection and value updates.
InitPolicy ==
  InitOrchestrator({Node(0, "edge", Fx(2, 1))}, {Node(1, "cloud", Fx(8, 1))}, {"basic"},
                   {MaxEpisodes}, {0, Fx(3, 10), Fx(1, 1)}, {Fx(9, 10)}, {0, 9000})

NextPolicy ==
  \/ \E state \in PolicyStates : ChooseActionCall(state)
  \/ \E state \in PolicyStates : ChooseActionGreedyCall(state)
  \/ \E state \in PolicyStates, action \in {0, 1}, reward \in CallRewards,
        next_state \in PolicyStates :
       UpdateQCall(state, action, reward, next_state)

SpecPolicy == InitPolicy /\ [][NextPolicy]_vars

\* ------------------------------------------------------------------ persistence calls
\* calls a caller makes when it also saves and loads
MaxFileCalls == MaxCalls + 1

\* orch.save_weights(path)
SaveWeightsCall(path) ==
  /\ pc = "idle" /\ calls < MaxFileCalls
  /\ files' = SaveWeights(files, path, weights)
  /\ last' = [op |-> "save_weights", path |-> path, weights |-> weights]
  /\ calls' = calls + 1
  /\ UNCHANGED <<edge, cloud, sim, orch, rng, loop, pc, config, runs, evaluation>>

\* orch.load_weights(path), or RLBasedOrchestrator().load_weights(path) on an
\* orchestrator built for the purpose (fresh)
LoadWeightsCall(path, fresh) ==
  /\ pc = "idle" /\ calls < MaxFileCalls
  /\ \E before \in {IF fresh THEN [k \in 1..6 |-> 0] ELSE weights} :
     \E res \in {LoadWeights(files, path, before)} :
       /\ weights' = IF fresh THEN weights ELSE res.weights
       /\ last' = [op |-> "load_weights", path |-> path, fresh |-> fresh,
                   file |-> files[path], ret |-> res.ret, raised |-> res.raised,
                   before |-> before, after |-> res.weights]
  /\ calls' = calls + 1
  /\ UNCHANGED <<edge, cloud, sim, episodes, epsilon, alpha, gamma, rng, loop, pc, started>>

InitPersist ==
  InitOrchestrator({Node(0, "edge", Fx(2, 1))}, {Node(1, "cloud", Fx(8, 1))}, {"basic"},
                   {MaxEpisodes}, {Fx(3, 10)}, {Fx(9, 10)}, {0})

NextPersist ==
  \/ \E state \in PolicyStates, action \in {0, 1} :
       UpdateQCall(state, action, -Fx(100, 1), state)
  \/ \E path \in WeightPaths : SaveWeightsCall(path)
  \/ \E path \in WeightPaths, fresh \in BOOLEAN : LoadWeightsCall(path, fresh)

SpecPersist == InitPersist /\ [][NextPersist]_vars

\* ------------------------------------------------------------------ rewards
\* the tasks whose rewards are compared
RewardTasks ==
  { Task(1, "IoT", Fx(8, 10), "low"),
    Task(2, "IoT", Fx(22, 100), "low"),
    Task(3, "ARVR", Fx(5, 1), "high"),
    Task(4, "VANET", Fx(2, 1), "medium") }

\* what is kept of an execution to compare the next one with
Outcome(rec) ==
  IF rec.op = "reward"
  THEN [known |-> TRUE, node_type |-> rec.node_type, latency_ms |-> rec.latency_ms,
        energy_joules |-> rec.energy_joules, reward |-> rec.reward]
  ELSE [known |-> FALSE]

\* _, latency, energy = self.assign_and_execute(task, action), then the reward of
\* that execution, as simulate_environment computes it
AssignAndRewardCall(action, task) ==
  /\ pc = "idle" /\ calls < MaxCalls
  /\ \E which \in {NodeOf(action)} :
     \E clock \in ClockReadings(sim) :
     \E res \in {ExecuteTask(NodeAt(which), task, sim, rng, clock)} :
       /\ edge' = IF which = "edge" THEN res.node ELSE edge
       /\ cloud' = IF which = "cloud" THEN res.node ELSE cloud
       /\ sim' = res.sim
       /\ rng' = res.rng
       /\ last' = [op |-> "reward", which |-> which, node_type |-> NodeAt(which).node_type,
                   task |-> task, latency_ms |-> res.latency_ms,
                   energy_joules |-> res.energy_joules,
                   reward |-> Reward(res.latency_ms, res.energy_joules),
                   prev |-> Outcome(last)]
  /\ calls' = calls + 1
  /\ UNCHANGED <<orch, loop, pc, started>>

InitReward ==
  InitOrchestrator(EdgeNodes, CloudNodes, {"basic"}, {MaxEpisodes}, {Fx(3, 10)},
                   {Fx(9, 10)}, Seeds)

NextReward == \E action \in {0, 1}, task \in RewardTasks : AssignAndRewardCall(action, task)

SpecReward == InitReward /\ [][NextReward]_vars

\* ------------------------------------------------------------------ construction
\* Orchestrators built from arguments of any value: Node.__init__ and
\* RLBasedOrchestrator.__init__ store what they are given.
AnyEdgeNodes == {Node(0, "edge", Fx(2, 1)), Node(0, "edge", 0), Node(0, "edge", -Fx(1, 1))}
AnyCloudNodes == {Node(1, "cloud", Fx(8, 1)), Node(1, "cloud", 0)}
AnyEpsilons == {Fx(3, 10), -Fx(1, 10), Fx(3, 2)}
AnyGammas == {Fx(9, 10), Fx(3, 2), -Fx(1, 2)}

InitConfig ==
  InitOrchestrator(AnyEdgeNodes, AnyCloudNodes, {"basic"}, {MaxEpisodes}, AnyEpsilons,
                   AnyGammas, {0, 9000})

\* the orchestrator is then asked for actions
NextConfig ==
  \/ \E state \in PolicyStates : ChooseActionCall(state)
  \/ \E state \in PolicyStates : ChooseActionGreedyCall(state)

SpecConfig == InitConfig /\ [][NextConfig]_vars

\* ------------------------------------------------------------------ the simulator factory
\* _AVAILABLE_SIMULATORS: the class registered under each key
AvailableSimulators == [simple |-> "fiveg", fiveg |-> "fiveg", simu5g |-> "simu5g"]

\* variant of GetSimulator: an unknown name yields the simple simulator
GetSimulatorDefaulting(name) ==
  IF Lower(name) \in DOMAIN AvailableSimulators
  THEN [status |-> "ok", key |-> Lower(name), sim |-> SimObject(AvailableSimulators[Lower(name)])]
  ELSE [status |-> "ok", key |-> "simple", sim |-> SimObject(AvailableSimulators["simple"])]

\* get_simulator(name): an instance of the registered class, or ValueError
GetSimulator(name) ==
  IF Lower(name) \notin DOMAIN AvailableSimulators
  THEN [status |-> "ValueError", key |-> Lower(name), sim |-> NoSim]
  ELSE [status |-> "ok", key |-> Lower(name), sim |-> SimObject(AvailableSimulators[Lower(name)])]

\* the names callers ask the factory for
FactoryNames == {"simple", "SIMPLE", "FiveG", "fiveg", "simu5g", "Simu5G", "basic", "ns3", ""}

\* orch.set_simulator(get_simulator(name)), before training: an unknown name
\* raises and the simulator stays
SetSimulatorCall(name) ==
  /\ pc = "idle" /\ last.op = "init"
  /\ \E made \in {GetSimulator(name)} :
       /\ sim' = IF made.status = "ok" THEN made.sim ELSE sim
       /\ config' = [config EXCEPT !.sim = IF made.status = "ok" THEN made.sim ELSE sim]
       /\ last' = [op |-> "get_simulator", name |-> name, status |-> made.status,
                   key |-> made.key, made |-> made.sim]
  /\ UNCHANGED <<edge, cloud, orch, rng, loop, pc, calls, runs, files, evaluation>>

\* ------------------------------------------------------------------ training runs
\* A process that builds an orchestrator, picks a simulator and trains once
\* (train_and_eval), and the same training started again with the same
\* arguments. Nothing on the way seeds the generator: a run starts from the
\* state the generator is in.
\* the generator states a process may find at its start: the interpreter seeds
\* the generator from the operating system, or the caller has seeded it
StartStates == {0, 4711}

TrainEpsilons == {0, Fx(1, 100), Fx(5, 100), Fx(3, 10), Fx(1, 1)}

InitTrain ==
  InitOrchestrator({Node(0, "edge", Fx(2, 1))}, {Node(1, "cloud", Fx(8, 1))}, {"basic"},
                   0..MaxEpisodes, TrainEpsilons, {Fx(9, 10)}, StartStates)

\* train_and_eval entered a second time with the same arguments: the orchestrator
\* is built anew and simulate_environment entered with the same num_tasks. Called
\* again in the same process the generator goes on from where it stands; in a
\* process started anew it is in one of StartStates
Rerun ==
  /\ pc = "idle" /\ Len(runs) = 1
  /\ rng' \in {rng} \cup StartStates
  /\ config' = [config EXCEPT !.seed = rng']
  /\ edge' = config.edge /\ cloud' = config.cloud
  /\ sim' = config.sim
  /\ episodes' = config.episodes /\ epsilon' = config.epsilon
  /\ alpha' = Fx(1, 100) /\ gamma' = config.gamma
  /\ weights' = [k \in 1..6 |-> 0]
  /\ pc' = "episodes"
  /\ ep' = 0 /\ i' = 0 /\ episode_reward' = 0 /\ total_rewards' = <<>>
  /\ executions' = 0 /\ updates' = 0
  /\ last' = [op |-> "simulate_environment", num_tasks |-> num_tasks]
  /\ UNCHANGED <<num_tasks, calls, runs, files, evaluation>>

TrainingStep == EpisodeStart \/ TrainStep \/ EpisodeEnd \/ SimulateEnvironmentReturn

NextTrain ==
  \/ \E name \in FactoryNames : SetSimulatorCall(name)
  \/ \E n \in 0..MaxTasks : runs = <<>> /\ SimulateEnvironment(n)
  \/ EpisodeStart
  \/ TrainStep
  \/ EpisodeEnd
  \/ SimulateEnvironmentReturn
  \/ Rerun

SpecTrain == InitTrain /\ [][NextTrain]_vars

\* simulate_environment runs to its end once entered: nothing suspends it. Each
\* step of the loop is taken when it can be; for the task step, which can be
\* taken exactly when the inner loop has a task left, weak fairness is written
\* out with that condition
TaskLeft == pc = "tasks" /\ i < num_tasks
TrainStepFair == []<>(~TaskLeft) \/ []<><<TrainStep>>_vars
SpecTrainFair ==
  /\ SpecTrain
  /\ WF_vars(EpisodeStart)
  /\ TrainStepFair
  /\ WF_vars(EpisodeEnd)
  /\ WF_vars(SimulateEnvironmentReturn)

\* ------------------------------------------------------------------ state calls
\* the tasks and the (edge load, cloud load) pairs callers ask the state of
StateTasks ==
  { Task(1, "IoT", Fx(5, 1), "high"),
    Task(2, "IoT", Fx(1, 1), "medium"),
    Task(3, "IoT", Fx(10, 1), "medium"),
    Task(4, "ARVR", Fx(5, 1), "low"),
    Task(5, "VANET", Fx(1, 1), "high"),
    Task(6, "iot", Fx(10, 1), "High") }
StateLoads ==
  { <<Fx(10, 1), Fx(20, 1)>>, <<Fx(10, 1), Fx(10, 1)>>, <<Fx(40, 1), Fx(40, 1)>>,
    <<Fx(80, 1), Fx(80, 1)>> }

\* orch._get_state(task, edge_load, cloud_load)
GetStateCall(task, edge_load, cloud_load) ==
  /\ pc = "idle" /\ calls < MaxCalls
  /\ last' = [op |-> "get_state", task |-> task, edge_load |-> edge_load,
              cloud_load |-> cloud_load, ret |-> GetState(task, edge_load, cloud_load),
              ret_types |-> StateTypes]
  /\ calls' = calls + 1
  /\ UNCHANGED <<edge, cloud, sim, orch, rng, loop, pc, started>>

\* The state representation queried directly.
InitState ==
  InitOrchestrator({Node(0, "edge", Fx(2, 1))}, {Node(1, "cloud", Fx(8, 1))}, {"basic"},
                   {MaxEpisodes}, {Fx(3, 10)}, {Fx(9, 10)}, Seeds)

NextState == \E task \in StateTasks, loads \in StateLoads : GetStateCall(task, loads[1], loads[2])

SpecState == InitState /\ [][NextState]_vars

\* ------------------------------------------------------------------ simulator calls
\* what callers pass to simulate_latency: node types, app types, sizes and loads (MB)
QueryNodeTypes == {"edge", "cloud"}
QueryAppTypes == {"IoT", "ARVR"}
QuerySizes == {0, Fx(5, 1)}
QueryLoads == {0, Fx(150, 1)}

\* the generator states the queries start from: the smallest and the largest
\* draw, one from which random.gauss returns a deviate below -2.5, and one in
\* the middle
QuerySeeds == {0, 4711, 4750, 9999}

\* sim.simulate_latency(node_type, app_type, task_size_mb=..., node_load=...)
SimulateLatencyCall(node_type, app_type, task_size_mb, node_load) ==
  /\ pc = "idle" /\ calls < MaxCalls
  /\ \E clock \in ClockReadings(sim) :
     \E res \in {Query(sim, node_type, app_type, task_size_mb, node_load, rng, clock)} :
       /\ res.status = "ok"
       /\ sim' = res.sim
       /\ rng' = res.rng
       /\ last' = [op |-> "simulate_latency", sim |-> sim, node_type |-> node_type,
                   app_type |-> app_type, task_size_mb |-> task_size_mb,
                   node_load |-> node_load, draw |-> rng, clock |-> clock,
                   ret |-> res.v]
  /\ calls' = calls + 1
  /\ UNCHANGED <<edge, cloud, orch, loop, pc, started>>

\* The simulators of sim_interface.py queried directly.
InitSim ==
  InitOrchestrator({Node(0, "edge", Fx(2, 1))}, {Node(1, "cloud", Fx(8, 1))}, RepoSimKinds,
                   {MaxEpisodes}, {Fx(3, 10)}, {Fx(9, 10)}, QuerySeeds)

NextSim ==
  \E node_type \in QueryNodeTypes, app_type \in QueryAppTypes, task_size_mb \in QuerySizes,
     node_load \in QueryLoads :
    SimulateLatencyCall(node_type, app_type, task_size_mb, node_load)

SpecSim == InitSim /\ [][NextSim]_vars

\* ------------------------------------------------------------------ assignments
\* the tasks and the actions callers pass to assign_and_execute
AssignTasks == {Task(1, "IoT", Fx(1, 1), "high"), Task(2, "ARVR", Fx(5, 2), "low")}
AssignActions == {0, 1, 2, -1}
MaxAssignments == MaxCalls + 1

\* the sizes assigned since the nodes were last reset, as the latest call left it
AssignedSoFar == IF last.op \in {"assign_and_execute", "reset_nodes"} THEN last.assigned ELSE 0

\* assign_and_execute: return (node.name, latency, energy)
AssignReturn(node, res) == <<node.name, res.latency_ms, res.energy_joules>>

\* orch.assign_and_execute(task, action): (node.name, latency, energy)
AssignAndExecuteCall(task, action) ==
  /\ pc = "idle" /\ calls < MaxAssignments
  /\ \E which \in {NodeOf(action)} :
     \E clock \in ClockReadings(sim) :
     \E res \in {ExecuteTask(NodeAt(which), task, sim, rng, clock)} :
       /\ ~res.raised
       /\ edge' = IF which = "edge" THEN res.node ELSE edge
       /\ cloud' = IF which = "cloud" THEN res.node ELSE cloud
       /\ sim' = res.sim
       /\ rng' = res.rng
       /\ last' = [op |-> "assign_and_execute", task |-> task, action |-> action,
                   ret |-> AssignReturn(NodeAt(which), res),
                   edge_before |-> edge.current_load,
                   cloud_before |-> cloud.current_load,
                   assigned |-> AssignedSoFar + task.size_mb]
  /\ calls' = calls + 1
  /\ UNCHANGED <<orch, loop, pc, started>>

\* orch.edge.reset_load(); orch.cloud.reset_load()
ResetNodesCall ==
  /\ pc = "idle" /\ calls < MaxAssignments
  /\ edge' = ResetLoad(edge)
  /\ cloud' = ResetLoad(cloud)
  /\ last' = [op |-> "reset_nodes", assigned |-> 0]
  /\ calls' = calls + 1
  /\ UNCHANGED <<sim, orch, rng, loop, pc, started>>

\* An orchestrator with the default nodes that is handed tasks and actions.
InitAssign ==
  InitOrchestrator({Node(0, "edge", Fx(2, 1))}, {Node(1, "cloud", Fx(8, 1))}, RepoSimKinds,
                   {MaxEpisodes}, {Fx(3, 10)}, {Fx(9, 10)}, {0, 4711})

NextAssign ==
  \/ \E task \in AssignTasks, action \in AssignActions : AssignAndExecuteCall(task, action)
  \/ ResetNodesCall

SpecAssign == InitAssign /\ [][NextAssign]_vars

\* ------------------------------------------------------------------ train_and_eval
\* the workloads load_or_generate_workloads and data/workloads.csv may hold
Workloads ==
  { <<>>,
    <<Task(0, "IoT", Fx(12, 10), "low")>>,
    <<Task(0, "ARVR", Fx(8, 1), "high"), Task(1, "IoT", Fx(6, 10), "medium")>> }

\* load_or_generate_workloads, data/workloads.csv missing: a task of the dummy
\* set, drawn app, size, priority; the size is kept as drawn: [task, rng]
DummyTask(task_id, r) ==
  LET app == Choice(<<"IoT", "ARVR", "VANET">>, r)
      size == UniformDouble(Fx(1, 2), Fx(12, 1), app.rng)
      prio == Choice(<<"low", "medium", "high">>, size.rng)
  IN  [task |-> Task(task_id, app.v, FxOf(size.v), prio.v), rng |-> prio.rng]

\* for i in range(n): the tasks from task_id on, appended to tasks: [tasks, rng]
RECURSIVE DummyTasks(_, _, _, _)
DummyTasks(task_id, n, r, tasks) ==
  IF task_id >= n THEN [tasks |-> tasks, rng |-> r]
  ELSE DummyTasks(task_id + 1, n, DummyTask(task_id, r).rng,
                  Append(tasks, DummyTask(task_id, r).task))

\* load_or_generate_workloads(n): the tasks of data/workloads.csv (held) when the
\* file exists, else n generated tasks: [tasks, rng]
LoadOrGenerateWorkloads(exists, held, n, r) ==
  IF exists THEN [tasks |-> held, rng |-> r] ELSE DummyTasks(0, n, r, <<>>)

\* a1, ..., an = ret raises ValueError unless ret holds n values
Unpacks(ret, n) == Len(ret) = n

\* train_and_eval: np.save(OUT_WEIGHTS, np.array([avg_lat_ms])), avg_lat_ms being
\* the first of the two values simulate_environment returned
PersistTrained ==
  /\ pc = "idle" /\ evaluation.phase = "none"
  /\ last.op = "simulate_environment_return"
  /\ \E avg_lat_ms \in {last.ret[1]} :
       /\ files' = SaveWeights(files, OUT_WEIGHTS, <<avg_lat_ms>>)
       /\ last' = [op |-> "persist", path |-> OUT_WEIGHTS, array |-> <<avg_lat_ms>>,
                   trained |-> weights]
  /\ evaluation' = [evaluation EXCEPT !.phase = "saved", !.strategy = "RL"]
  /\ UNCHANGED <<edge, cloud, sim, orch, rng, loop, pc, calls, config, runs>>

\* train_and_eval: tasks = load_or_generate_workloads(), then
\* eval_orch = RLBasedOrchestrator(sim=sim, episodes=1, epsilon=0.0) and the
\* reset of its two nodes
EvalStart(exists, held, n) ==
  /\ pc = "idle" /\ evaluation.phase = "saved"
  /\ \E loaded \in {LoadOrGenerateWorkloads(exists, held, n, rng)} :
       /\ rng' = loaded.rng
       /\ evaluation' = [evaluation EXCEPT !.phase = "eval", !.tasks = loaded.tasks,
                                           !.results = <<>>, !.start_loads = <<0, 0>>]
  /\ edge' = ResetLoad(Node(0, "edge", Fx(2, 1)))
  /\ cloud' = ResetLoad(Node(1, "cloud", Fx(8, 1)))
  /\ episodes' = 1
  /\ epsilon' = 0
  /\ alpha' = Fx(1, 100)
  /\ gamma' = Fx(9, 10)
  /\ weights' = [k \in 1..6 |-> 0]
  /\ last' = [op |-> "eval_start", trained |-> weights, generated |-> ~exists]
  /\ UNCHANGED <<sim, loop, pc, calls, config, runs, files>>

\* for t in tasks: the state, the greedy action, the execution, and
\* node, lat = eval_orch.assign_and_execute(t, action)
EvalStep ==
  /\ pc = "idle" /\ evaluation.phase = "eval"
  /\ Len(evaluation.results) < Len(evaluation.tasks)
  /\ \E t \in {evaluation.tasks[Len(evaluation.results) + 1]} :
     \E state \in {GetState(t, edge.current_load, cloud.current_load)} :
     \E action \in {ChooseActionGreedy(weights, state)} :
     \E which \in {NodeOf(action)} :
     \E clock \in ClockReadings(sim) :
     \E res \in {ExecuteTask(NodeAt(which), t, sim, rng, clock)} :
     \E ret \in {AssignReturn(NodeAt(which), res)} :
       /\ ~res.raised
       /\ edge' = IF which = "edge" THEN res.node ELSE edge
       /\ cloud' = IF which = "cloud" THEN res.node ELSE cloud
       /\ sim' = res.sim
       /\ rng' = res.rng
       /\ evaluation' =
            IF Unpacks(ret, 2)
            THEN [evaluation EXCEPT !.results = Append(@, <<t.task_id, ret[1], ret[2]>>)]
            ELSE [evaluation EXCEPT !.phase = "crashed"]
       /\ last' = [op |-> "eval_step", task |-> t, state |-> state, action |-> action,
                   ret |-> ret, store |-> weights,
                   raised |-> IF Unpacks(ret, 2) THEN "none" ELSE "ValueError"]
  /\ UNCHANGED <<orch, loop, pc, calls, config, runs, files>>

\* the loop is over: the records are written to workload_results.csv
EvalEnd ==
  /\ pc = "idle" /\ evaluation.phase = "eval"
  /\ Len(evaluation.results) = Len(evaluation.tasks)
  /\ evaluation' = [evaluation EXCEPT !.phase = "done"]
  /\ last' = [op |-> "eval_end", rows |-> evaluation.results]
  /\ UNCHANGED <<edge, cloud, sim, orch, rng, loop, pc, calls, config, runs, files>>

\* train_and_eval(sim_choice, episodes): the simulator comes from the factory,
\* the orchestrator has the default nodes and the default exploration rate
InitTrainAndEval ==
  InitOrchestrator({Node(0, "edge", Fx(2, 1))}, {Node(1, "cloud", Fx(8, 1))},
                   {"fiveg", "simu5g"}, 1..MaxEpisodes, {Fx(3, 10)}, {Fx(9, 10)},
                   {0, 4711})

NextTrainAndEval ==
  \/ \E n \in 1..MaxTasks : runs = <<>> /\ SimulateEnvironment(n)
  \/ EpisodeStart
  \/ TrainStep
  \/ EpisodeEnd
  \/ SimulateEnvironmentReturn
  \/ PersistTrained
  \/ \E held \in Workloads : EvalStart(TRUE, held, 0)
  \/ \E n \in 1..MaxTasks : EvalStart(FALSE, <<>>, n)
  \/ EvalStep
  \/ EvalEnd

SpecTrainAndEval == InitTrainAndEval /\ [][NextTrainAndEval]_vars

\* ------------------------------------------------------------------ run_with_workload
\* main.py: the strategies, in the order the registry is walked
Strategies == <<"Random", "Rule", "RL", "StaticEdge", "StaticCloud">>

\* WorkloadGenerator.app_profiles: size_range and priority_weights
SizeRange(app_type) ==
  CASE app_type = "IoT" -> <<Fx(1, 2), Fx(3, 1)>>
    [] app_type = "ARVR" -> <<Fx(5, 1), Fx(12, 1)>>
    [] OTHER -> <<Fx(2, 1), Fx(8, 1)>>
PriorityWeights(app_type) ==
  CASE app_type = "IoT" -> <<Fx(6, 10), Fx(3, 10), Fx(1, 10)>>
    [] app_type = "ARVR" -> <<Fx(2, 10), Fx(5, 10), Fx(3, 10)>>
    [] OTHER -> <<Fx(3, 10), Fx(5, 10), Fx(2, 10)>>

\* WorkloadGenerator._choose_priority
ChoosePriority(app_type, r) ==
  Choices(<<"low", "medium", "high">>, PriorityWeights(app_type), r)

\* WorkloadGenerator._generate_task: drawn app, size, priority; the size is
\* rounded to three decimals: [task, rng]
GenerateTask(task_id, r) ==
  LET app_type == Choice(<<"IoT", "ARVR", "VANET">>, r)
      size == UniformDouble(SizeRange(app_type.v)[1], SizeRange(app_type.v)[2], app_type.rng)
      priority == ChoosePriority(app_type.v, size.rng)
  IN  [task |-> Task(task_id, app_type.v, Round3(size.v), priority.v), rng |-> priority.rng]

\* WorkloadGenerator.generate, for i in range(self.num_tasks): the arrival delta
\* is drawn, then the task; the rows from task_id on, appended to tasks:
\* [tasks, rng]
RECURSIVE GenerateRows(_, _, _, _, _)
GenerateRows(task_id, n, poisson_lambda, r, tasks) ==
  IF task_id >= n THEN [tasks |-> tasks, rng |-> r]
  ELSE GenerateRows(task_id + 1, n, poisson_lambda,
                    GenerateTask(task_id, Expovariate(poisson_lambda, r).rng).rng,
                    Append(tasks,
                           GenerateTask(task_id, Expovariate(poisson_lambda, r).rng).task))

\* WorkloadGenerator(num_tasks=n, poisson_lambda=...).generate() and the rows read back
\* from data/workloads.csv: [tasks, rng]
Generate(n, poisson_lambda, r) == GenerateRows(0, n, poisson_lambda, r, <<>>)

\* run_with_workload, steps 1 and 2: the workload is generated and read back,
\* the simulator comes from the factory
MainStart(n) ==
  /\ pc = "idle" /\ evaluation.phase = "none"
  /\ \E gen \in {Generate(n, Fx(3, 1), rng)} :
       /\ rng' = gen.rng
       /\ evaluation' = [evaluation EXCEPT !.phase = "loop", !.tasks = gen.tasks]
       /\ last' = [op |-> "main_start", generated |-> gen.tasks]
  /\ UNCHANGED <<edge, cloud, sim, orch, loop, calls, pc, config, runs, files>>

\* for name, OrchClass in strategies.items(): edge, cloud = make_nodes() and the
\* orchestrator of the strategy; the RL one is built for training, the others
\* go on to the workload
NextStrategy ==
  /\ pc = "idle" /\ evaluation.phase = "loop"
  /\ evaluation.done < Len(Strategies)
  /\ edge' = Node(0, "edge", Fx(2, 1))
  /\ cloud' = Node(1, "cloud", Fx(8, 1))
  /\ \E name \in {Strategies[evaluation.done + 1]} :
       /\ evaluation' =
            IF name = "RL"
            THEN [evaluation EXCEPT !.strategy = name, !.phase = "built"]
            ELSE [evaluation EXCEPT !.strategy = name, !.phase = "eval", !.results = <<>>,
                                    !.start_loads = <<0, 0>>]
       /\ weights' = IF name = "RL" THEN [k \in 1..6 |-> 0] ELSE weights
       /\ last' = [op |-> "strategy", name |-> name]
  /\ UNCHANGED <<sim, episodes, epsilon, alpha, gamma, rng, loop, calls, pc, config, runs,
                 files>>

\* after the training pass: orch.save_weights("data/rl_weights.npy"), then
\* orch.load_weights("data/rl_weights.npy"); the pass over the workload begins
\* with the nodes as training left them
SaveAndLoadTrained ==
  /\ pc = "idle" /\ evaluation.phase = "built"
  /\ last.op = "simulate_environment_return"
  /\ \E disk \in {SaveWeights(files, OUT_WEIGHTS, weights)} :
     \E loaded \in {LoadWeights(disk, OUT_WEIGHTS, weights)} :
       /\ files' = disk
       /\ weights' = loaded.weights
       /\ last' = [op |-> "save_and_load", saved |-> weights, ret |-> loaded.ret]
  /\ evaluation' = [evaluation EXCEPT !.phase = "eval", !.results = <<>>,
                      !.start_loads = <<edge.current_load, cloud.current_load>>]
  /\ UNCHANGED <<edge, cloud, sim, episodes, epsilon, alpha, gamma, rng, loop, calls, pc,
                 config, runs>>

\* the node a strategy sends a task to: [which, rng]
StrategyNode(name, task, r) ==
  CASE name = "RL" ->
         [which |-> NodeOf(ChooseActionGreedy(weights,
                             GetState(task, edge.current_load, cloud.current_load))),
          rng |-> r]
    [] name = "Rule" ->
         [which |-> IF task.size_mb < Fx(5, 1) \/ task.priority = "high" THEN "edge"
                    ELSE "cloud",
          rng |-> r]
    [] name = "StaticEdge" -> [which |-> "edge", rng |-> r]
    [] name = "StaticCloud" -> [which |-> "cloud", rng |-> r]
    [] OTHER ->
         [which |-> IF Choice(<<TRUE, FALSE>>, r).v THEN "edge" ELSE "cloud",
          rng |-> Choice(<<TRUE, FALSE>>, r).rng]

\* for _, row in df_work.iterrows(): the task is placed by the strategy, executed
\* with the simulator, and recorded
WorkloadStep ==
  /\ pc = "idle" /\ evaluation.phase = "eval"
  /\ Len(evaluation.results) < Len(evaluation.tasks)
  /\ \E t \in {evaluation.tasks[Len(evaluation.results) + 1]} :
     \E placed \in {StrategyNode(evaluation.strategy, t, rng)} :
     \E clock \in ClockReadings(sim) :
     \E res \in {ExecuteTask(NodeAt(placed.which), t, sim, placed.rng, clock)} :
       /\ ~res.raised
       /\ edge' = IF placed.which = "edge" THEN res.node ELSE edge
       /\ cloud' = IF placed.which = "cloud" THEN res.node ELSE cloud
       /\ sim' = res.sim
       /\ rng' = res.rng
       /\ evaluation' =
            [evaluation EXCEPT !.results =
               Append(@, [strategy |-> evaluation.strategy, task_id |-> t.task_id,
                          node |-> NodeAt(placed.which).name,
                          latency |-> res.latency_ms, energy |-> res.energy_joules])]
       /\ last' = [op |-> "workload_step", strategy |-> evaluation.strategy, task |-> t,
                   which |-> placed.which]
  /\ UNCHANGED <<orch, loop, calls, pc, config, runs, files>>

\* the workload is done: on to the next strategy
WorkloadEnd ==
  /\ pc = "idle" /\ evaluation.phase = "eval"
  /\ Len(evaluation.results) = Len(evaluation.tasks)
  /\ evaluation' = [evaluation EXCEPT !.phase = "loop", !.done = @ + 1]
  /\ last' = [op |-> "workload_end", strategy |-> evaluation.strategy,
              rows |-> evaluation.results]
  /\ UNCHANGED <<edge, cloud, sim, orch, rng, loop, calls, pc, config, runs, files>>

\* run_with_workload: the RL orchestrator is built with the episode count of the
\* script and the default exploration rate, and given the factory's simulator
InitMain ==
  InitOrchestrator({Node(0, "edge", Fx(2, 1))}, {Node(1, "cloud", Fx(8, 1))},
                   {"fiveg", "simu5g"}, 1..MaxEpisodes, {Fx(3, 10)}, {Fx(9, 10)},
                   {0, 4711})

NextMain ==
  \/ \E n \in 1..MaxTasks : MainStart(n)
  \/ NextStrategy
  \/ \E n \in 1..MaxTasks : evaluation.phase = "built" /\ runs = <<>> /\ SimulateEnvironment(n)
  \/ EpisodeStart
  \/ TrainStep
  \/ EpisodeEnd
  \/ SimulateEnvironmentReturn
  \/ SaveAndLoadTrained
  \/ WorkloadStep
  \/ WorkloadEnd

SpecMain == InitMain /\ [][NextMain]_vars

\* ------------------------------------------------------------------ learning
\* An orchestrator that is updated and asked for greedy actions in turn.
InitLearn ==
  InitOrchestrator({Node(0, "edge", Fx(2, 1))}, {Node(1, "cloud", Fx(8, 1))}, {"basic"},
                   {MaxEpisodes}, {Fx(3, 10)}, {Fx(9, 10)}, {0})

NextLearn ==
  \/ \E state \in PolicyStates : ChooseActionGreedyCall(state)
  \/ \E state \in PolicyStates, action \in {0, 1}, reward \in {-Fx(100, 1), Fx(5, 1)} :
       UpdateQCall(state, action, reward, state)

SpecLearn == InitLearn /\ [][NextLearn]_vars

\* ------------------------------------------------------------------ claims: nodes
\* the latest call executed a task (directly, or as a step of a training run)
Executing == last.op \in {"execute_task", "train_step"}

\* the node the latest call acted on, as it is now
Acted == NodeAt(last.which)

\* the simulator raised during the latest execution
SimulatorRaised == Executing /\ (last.failed \/ last.retried)

\* C1: execute_task adds task.size_mb to the node's current_load exactly once,
\* with or without a simulator and whether or not the simulator raises, and
\* changes no other field of the node.
C1_LoadGrowsBySize ==
  Executing =>
    /\ Acted = last.after
    /\ last.after.current_load = last.before.current_load + last.task.size_mb
    /\ last.after.node_id = last.before.node_id
    /\ last.after.node_type = last.before.node_type
    /\ last.after.capacity_mbps = last.before.capacity_mbps
    /\ last.after.name = last.before.name

\* C1 witness: a task executed on a loaded node while the simulator raised
C1_Witness ==
  /\ Executing
  /\ last.failed
  /\ last.before.current_load > 0
  /\ last.after.current_load = last.before.current_load + last.task.size_mb

\* C2: the loads are never negative, a load falls only through reset_load, which
\* leaves exactly 0, and every episode of simulate_environment starts its tasks
\* with both loads at 0.
LoadsNonNegative == edge.current_load >= 0 /\ cloud.current_load >= 0
ResetStep == last'.op \in {"reset_load", "episode_start"}
LoadFallsOnlyByReset ==
  /\ edge'.current_load < edge.current_load => ResetStep /\ edge'.current_load = 0
  /\ cloud'.current_load < cloud.current_load => ResetStep /\ cloud'.current_load = 0
ResetLeavesZero ==
  /\ last'.op = "reset_load" =>
       (IF last'.which = "edge" THEN edge' ELSE cloud').current_load = 0
  /\ last'.op = "episode_start" => edge'.current_load = 0 /\ cloud'.current_load = 0
EpisodeStartsUnloaded ==
  (pc = "tasks" /\ i = 0) => (edge.current_load = 0 /\ cloud.current_load = 0)
C2_LoadInvariant ==
  /\ [](LoadsNonNegative /\ EpisodeStartsUnloaded)
  /\ [][LoadFallsOnlyByReset /\ ResetLeavesZero]_vars

\* C2 witness: a second episode starts after the first one loaded a node
C2_Witness ==
  /\ last.op = "episode_start"
  /\ last.ep = 1
  /\ last.before[1].current_load + last.before[2].current_load > 0
  /\ edge.current_load = 0 /\ cloud.current_load = 0

\* C3 as claimed: whenever the simulator raises during the latency query, the
\* fallback latency of 0.001 s is what execute_task uses.
C3_FallbackWheneverRaised ==
  SimulatorRaised => (~last.raised /\ last.net_latency = FallbackLatency)

\* C3 as amended: no exception of the simulator leaves execute_task. A TypeError
\* makes it repeat the query with the two positional arguments, and the value of
\* that query is used if it returns; in every other case of a raising query the
\* latency is the 0.001 s fallback. The pair is returned and the load updated all
\* the same, and a training run never aborts: it runs every configured episode.
TrainingRuns == pc \in {"episodes", "tasks"}
TrainingCanStep ==
  \/ pc = "episodes" /\ ep < episodes      \* the next episode starts
  \/ pc = "episodes" /\ ep = episodes      \* the run returns
  \/ pc = "tasks" /\ i < num_tasks         \* the next task is executed
  \/ pc = "tasks" /\ i = num_tasks         \* the episode ends
C3_SimulatorErrorsContained ==
  /\ pc # "crashed"
  /\ TrainingRuns => TrainingCanStep
  /\ Executing =>
       /\ ~last.raised
       /\ last.failed => last.net_latency = FallbackLatency
       /\ (last.retried /\ ~last.failed) => last.net_latency >= base_edge_latency
       /\ last.latency_ms = (last.processing_time + last.net_latency) * 1000
       /\ last.after.current_load = last.before.current_load + last.task.size_mb
  /\ last.op = "simulate_environment_return" =>
       /\ last.episodes_run = episodes
       /\ Len(last.ret[2]) = episodes

\* C3 witness: a training run returned whose last step met a raising simulator
C3_Witness ==
  /\ last.op = "simulate_environment_return"
  /\ last.episodes_run = episodes
  /\ sim.kind \in {"raising", "typeerror"}
  /\ episode_reward < 0

\* C4: execute_task returns a positive latency and a positive energy, without a
\* simulator and with each simulator of the repository.
C4_PositiveLatencyAndEnergy ==
  (Executing /\ last.network_sim.kind \in RepoSimKinds \cup {"None"}) =>
    (last.latency_ms > 0 /\ last.energy_joules > 0)

\* C4 witness: executions without a simulator and with a repository simulator
C4_Witness ==
  /\ Executing
  /\ last.network_sim.kind = "simu5g"
  /\ last.before.node_type # "edge"
  /\ last.latency_ms > 0 /\ last.energy_joules > 0

\* C5: latency_ms = (size / capacity + network latency) * 1000 and energy = P *
\* (size / capacity + network latency) with P = 10 W on an "edge" node and 50 W on
\* any other, so energy * 1000 = P * latency_ms; the simulator is given the load
\* from before the task is added.
PowerOf(node_type) == IF node_type = "edge" THEN 10 ELSE 50
C5_LatencyAndEnergyFormulas ==
  Executing =>
    LET seconds == Div(last.task.size_mb, last.before.capacity_mbps) + last.net_latency
        P == PowerOf(last.before.node_type)
    IN  /\ last.latency_ms = seconds * 1000
        /\ last.energy_joules = P * seconds
        /\ last.latency_ms % 1000 = 0
        /\ last.energy_joules = P * (last.latency_ms \div 1000)
        /\ last.query_load = last.before.current_load

\* C5 witness: an execution on a node that is neither "edge" nor "cloud", loaded
\* before the call, with a simulator that reads the load
C5_Witness ==
  /\ Executing
  /\ last.before.node_type = "fog"
  /\ last.before.current_load > 0
  /\ last.network_sim.kind = "fiveg"
  /\ last.energy_joules = 50 * (last.latency_ms \div 1000)

\* C6 as claimed: without a simulator the network latency is the fallback
\* constant, so the latency exceeds the processing time.
C6_FallbackWithoutSimulator ==
  (Executing /\ last.network_sim = NoSim) =>
    /\ last.net_latency = FallbackLatency
    /\ last.latency_ms > last.processing_time * 1000

\* C6 as amended: without a simulator the network latency is 0 and the latency is
\* exactly the processing time size / capacity * 1000; the 0.001 s fallback is
\* used only when a simulator is given that has no simulate_latency or raises.
C6_NoLatencyWithoutSimulator ==
  Executing =>
    /\ last.network_sim = NoSim =>
         /\ last.net_latency = 0
         /\ last.latency_ms = Div(last.task.size_mb, last.before.capacity_mbps) * 1000
    /\ last.network_sim.kind = "noattr" => last.net_latency = FallbackLatency
    /\ last.net_latency = FallbackLatency =>
         (last.network_sim.kind = "noattr" \/ last.failed)

\* C6 witness: an execution without a simulator
C6_Witness ==
  /\ Executing
  /\ last.network_sim = NoSim
  /\ last.net_latency = 0
  /\ last.latency_ms > 0

\* ------------------------------------------------------------------ claims: policy
\* Q(state, action) under weights w, written out: the bias, the cloud indicator,
\* the scaled size, the load, their product and the scaled priority
QValue(w, state, action) ==
  Mul(w[1], Scale)
    + (IF action = 1 THEN Mul(w[2], Scale) ELSE 0)
    + Mul(w[3], RoundDiv(state[3], 10))
    + Mul(w[4], state[4])
    + Mul(w[5], Mul(RoundDiv(state[3], 10), state[4]))
    + Mul(w[6], RoundDiv(state[2] * Scale, 2))

\* phi(state, action), component k
Phi(state, action, k) ==
  CASE k = 1 -> Scale
    [] k = 2 -> IF action = 1 THEN Scale ELSE 0
    [] k = 3 -> RoundDiv(state[3], 10)
    [] k = 4 -> state[4]
    [] k = 5 -> Mul(RoundDiv(state[3], 10), state[4])
    [] OTHER -> RoundDiv(state[2] * Scale, 2)

\* C7: update_q replaces the weights by weights + alpha * (reward + gamma *
\* max_a' Q(next_state, a') - Q(state, action)) * phi(state, action), both Q
\* values taken on the weights before the update, and changes nothing else.
TdErrorBefore(c) ==
  LET q0 == QValue(weights, c.next_state, 0)
      q1 == QValue(weights, c.next_state, 1)
  IN  c.reward + Mul(gamma, IF q0 >= q1 THEN q0 ELSE q1)
        - QValue(weights, c.state, c.action)
UpdateQStep ==
  last'.op = "update_q" =>
    /\ \A k \in 1..6 :
         weights'[k] = weights[k]
                         + Mul(Mul(alpha, TdErrorBefore(last')), Phi(last'.state, last'.action, k))
    /\ last'.before = weights
    /\ UNCHANGED <<edge, cloud, sim, episodes, epsilon, alpha, gamma, rng, loop, pc,
                 started>>
C7_UpdateRule == [][UpdateQStep]_vars

\* C7 witness: an update whose next state has different values for the two
\* actions, on weights that an earlier update has already moved
C7_Witness ==
  /\ last.op = "update_q"
  /\ last.before # [k \in 1..6 |-> 0]
  /\ QValue(last.before, last.next_state, 0) < QValue(last.before, last.next_state, 1)
  /\ weights # last.before

\* C8: from the initial weights (Q = 0 everywhere) one update_q with a negative
\* reward leaves Q(state, action) negative, whatever the state, action and next
\* state.
C8_NegativeRewardLowersQ ==
  (last.op = "update_q" /\ last.before = [k \in 1..6 |-> 0] /\ last.reward < 0) =>
    QValue(weights, last.state, last.action) < 0

\* C8 witness: the update of the repository's test, for the cloud action
C8_Witness ==
  /\ last.op = "update_q"
  /\ last.before = [k \in 1..6 |-> 0]
  /\ last.reward = -Fx(100, 1)
  /\ last.action = 1
  /\ QValue(weights, last.state, last.action) < 0

\* C9: choose_action_greedy returns 0 exactly when Q(state, 0) >= Q(state, 1), 1
\* otherwise (a tie goes to edge); it changes nothing, and called again with the
\* same state before any update it returns the same action.
GreedyCallStep ==
  last'.op = "choose_action_greedy" =>
    /\ (last'.action = 0) <=> (QValue(weights, last'.state, 0) >= QValue(weights, last'.state, 1))
    /\ last'.action \in {0, 1}
    /\ UNCHANGED <<edge, cloud, sim, orch, rng, loop, pc, started>>
    /\ (last.op = "choose_action_greedy" /\ last.state = last'.state) =>
         last'.action = last.action
C9_GreedyDeterministic == [][GreedyCallStep]_vars

\* C9 witness: the same state queried twice in a row, the second time with the
\* same answer, on weights that prefer the cloud
C9_Witness ==
  /\ last.op = "choose_action_greedy"
  /\ last.action = 1
  /\ QValue(weights, last.state, 0) < QValue(weights, last.state, 1)

\* C9 witness of a tie: equal values, and edge is chosen
C9_TieWitness ==
  /\ last.op = "choose_action_greedy"
  /\ weights # [k \in 1..6 |-> 0]
  /\ QValue(weights, last.state, 0) = QValue(weights, last.state, 1)
  /\ last.action = 0

\* C10: with epsilon = 0 choose_action never explores and returns what
\* choose_action_greedy returns, for every state and every weight vector.
C10_NoExplorationAtZero ==
  (last.op = "choose_action" /\ epsilon = 0) =>
    /\ ~last.explored
    /\ last.action = ChooseActionGreedy(weights, last.state)

\* C10 witness: epsilon = 0, the draw is 0.0, and the weights prefer the cloud
C10_Witness ==
  /\ last.op = "choose_action"
  /\ epsilon = 0
  /\ last.draw = 0
  /\ last.action = 1
  /\ ~last.explored

\* ------------------------------------------------------------------ claims: training
\* a run of simulate_environment is under way
InRun == pc \in {"episodes", "tasks"}

\* a step of simulate_environment
RunStep ==
  last'.op \in {"episode_start", "train_step", "episode_end", "simulate_environment_return"}

\* C11 as stated: at every point of a training run epsilon is at least its
\* floor, for every initial epsilon the constructor accepts.
C11_EpsilonAtLeastFloor == InRun => epsilon >= EpsilonFloor

\* C11, amended: during a training run epsilon is at least the smaller of its
\* initial value and the floor; it is at least the floor from the end of the
\* first episode on, and throughout when the initial value is not below the
\* floor.
C11_EpsilonFloorOnceDecayed ==
  (InRun \/ last.op = "simulate_environment_return") =>
    /\ epsilon >= Min2(config.epsilon, EpsilonFloor)
    /\ (ep >= 1) => (epsilon >= EpsilonFloor)
    /\ (config.epsilon >= EpsilonFloor) => (epsilon >= EpsilonFloor)

\* C11 witness: a run started below the floor has finished an episode and
\* epsilon is the floor; the run goes on
C11_Witness ==
  /\ pc = "tasks"
  /\ ep = 1
  /\ config.epsilon < EpsilonFloor
  /\ epsilon = EpsilonFloor

\* C12 as stated: epsilon changes only at the end of an episode and never
\* increases, so it is never above its initial value.
EpsilonNeverIncreases ==
  RunStep =>
    /\ epsilon' <= epsilon
    /\ epsilon' <= config.epsilon
    /\ (epsilon' # epsilon) => (last'.op = "episode_end")
C12_EpsilonNeverIncreases == [][EpsilonNeverIncreases]_vars

\* C12, amended: epsilon changes only in the step that ends an episode, once
\* per episode and after its last task; from a value at or above the floor it
\* does not increase and stays at or above the floor; from a value below the
\* floor (an initial value the constructor accepted) that step raises it to the
\* floor.
EpsilonDecaysTowardsFloor ==
  RunStep =>
    /\ (last'.op # "episode_end") => (epsilon' = epsilon)
    /\ (last'.op = "episode_end") => (i = num_tasks /\ ep' = ep + 1)
    /\ (epsilon >= EpsilonFloor) => (EpsilonFloor <= epsilon' /\ epsilon' <= epsilon)
    /\ (epsilon < EpsilonFloor /\ last'.op = "episode_end") => (epsilon' = EpsilonFloor)
C12_EpsilonDecaysTowardsFloor == [][EpsilonDecaysTowardsFloor]_vars

\* C12 witness: the second episode has ended and epsilon has decayed twice,
\* still above the floor
C12_Witness ==
  /\ last.op = "episode_end"
  /\ ep = 2
  /\ epsilon < Mul(config.epsilon, EpsilonDecay)
  /\ epsilon > EpsilonFloor

\* C15: simulate_environment with E episodes and T tasks per episode always
\* terminates; it has then executed exactly E*T tasks and made exactly E*T
\* updates, it appends exactly one total per episode, and the reward history
\* it returns has length E.
RunReturned == last.op = "simulate_environment_return"
CountsAtReturn ==
  RunReturned =>
    /\ executions = episodes * num_tasks
    /\ updates = episodes * num_tasks
    /\ Len(last.ret[2]) = episodes
    /\ last.ret[2] = total_rewards
OneTotalPerEpisode ==
  RunStep =>
    Len(total_rewards') = Len(total_rewards) + (IF last'.op = "episode_end" THEN 1 ELSE 0)
C15_RunTerminatesWithCounts ==
  /\ []CountsAtReturn
  /\ [][OneTotalPerEpisode]_vars
  /\ (InRun ~> RunReturned)

\* C15 witness: a run of two episodes of two tasks has returned
C15_Witness ==
  /\ RunReturned
  /\ episodes = 2 /\ num_tasks = 2
  /\ executions = 4 /\ updates = 4
  /\ Len(total_rewards) = 2

\* C16: the first value simulate_environment returns is an average latency of
\* the run, strictly positive when at least one task was executed.
C16_PositiveAverageLatency == (RunReturned /\ executions > 0) => last.ret[1] > 0

\* two executions, one after the other, and their rewards
RewardPair == last.op = "reward" /\ last.prev.known

\* the power drawn is the same: both nodes are of type "edge", or neither is
SameProfile == (last.node_type = "edge") <=> (last.prev.node_type = "edge")

\* C17 as stated: of any two executions, on the same node or on different
\* nodes, the one with the smaller latency has the greater reward.
C17_LowerLatencyHigherReward ==
  RewardPair =>
    /\ (last.latency_ms < last.prev.latency_ms) => (last.reward > last.prev.reward)
    /\ (last.prev.latency_ms < last.latency_ms) => (last.prev.reward > last.reward)

\* C17, amended: of two executions on nodes of the same power profile, the one
\* with the smaller latency has the greater reward; in general the reward is
\* the negative of latency/100 * 5 + energy * 0.1, and orders executions by
\* that sum.
C17_LowerLatencyHigherRewardSameProfile ==
  RewardPair =>
    /\ last.reward < 0
    /\ SameProfile =>
         /\ (last.latency_ms < last.prev.latency_ms) => (last.reward > last.prev.reward)
         /\ (last.prev.latency_ms < last.latency_ms) => (last.prev.reward > last.reward)
    /\ (Mul(RoundDiv(last.latency_ms, 100), w_latency) + Mul(last.energy_joules, w_energy)
          < Mul(RoundDiv(last.prev.latency_ms, 100), w_latency)
              + Mul(last.prev.energy_joules, w_energy))
         => (last.reward > last.prev.reward)

\* C17 witness: two executions on different nodes of the same profile, the
\* second with the smaller latency and the greater reward
C17_Witness ==
  /\ RewardPair
  /\ SameProfile
  /\ last.which = "cloud"
  /\ last.latency_ms < last.prev.latency_ms
  /\ last.reward > last.prev.reward

\* C18: an invalid hyperparameter (epsilon or gamma outside [0, 1], a node of
\* non-positive capacity) is rejected when the orchestrator is constructed: no
\* orchestrator exists, and none is used, with such a value.
C18_InvalidConfigurationRejected ==
  /\ 0 <= epsilon /\ epsilon <= Fx(1, 1)
  /\ 0 <= gamma /\ gamma <= Fx(1, 1)
  /\ edge.capacity_mbps > 0
  /\ cloud.capacity_mbps > 0

\* ------------------------------------------------------------------ claims: factory and seeds
\* the names the registry knows, compared in lower case
RegisteredName(name) == Lower(name) \in {"simple", "fiveg", "simu5g"}

\* C19: get_simulator(name) raises for a name that is not registered, compared
\* case-insensitively, and returns no instance; for every registered name it
\* returns an instance that has simulate_latency.
C19_FactoryKnowsItsNames ==
  (last.op = "get_simulator") =>
    /\ ~RegisteredName(last.name) =>
         /\ last.status = "ValueError"
         /\ last.made = NoSim
         /\ sim = SimObject("basic")
    /\ RegisteredName(last.name) =>
         /\ last.status = "ok"
         /\ last.made.kind \in {"fiveg", "simu5g"}
         /\ HasSimulateLatency(last.made)
         /\ sim = last.made

\* C19 witness: a registered name in upper case has produced the simple simulator
C19_Witness ==
  /\ last.op = "get_simulator"
  /\ last.name = "SIMPLE"
  /\ last.status = "ok"
  /\ sim.kind = "fiveg"

\* C19 witness of the error: an unknown name has raised
C19_UnknownNameWitness ==
  /\ last.op = "get_simulator"
  /\ last.name = "ns3"
  /\ last.status = "ValueError"

\* C20: two runs of simulate_environment that start with the generator in the
\* same state (the same seed) and the same configuration, with any simulator the
\* factory offers, produce the same reward history and the same final weights.
C20_ReproducibleFromSeed ==
  (Len(runs) = 2 /\ runs[1].seed = runs[2].seed) =>
    /\ runs[1].total_rewards = runs[2].total_rewards
    /\ runs[1].weights = runs[2].weights

\* ------------------------------------------------------------------ claims: persistence
\* C13: save_weights(path) followed by load_weights(path), same path argument,
\* on a fresh orchestrator: the load returns True and the fresh orchestrator's
\* Q equals the saving orchestrator's for every state and action.
RoundTrip ==
  (last.op = "save_weights" /\ last'.op = "load_weights" /\ last'.fresh
     /\ last'.path = last.path) =>
    /\ last'.ret = TRUE
    /\ \A state \in PolicyStates, action \in {0, 1} :
         GetQ(last'.after, state, action) = GetQ(last.weights, state, action)
C13_SaveLoadRoundTrip == [][RoundTrip]_vars

\* C14: load_weights on a missing or corrupt file returns False, raises
\* nothing and leaves the weights of the orchestrator as they were.
C14_FailedLoadKeepsWeights ==
  (last.op = "load_weights" /\ last.file.kind \in {"missing", "garbage"}) =>
    /\ last.ret = FALSE
    /\ ~last.raised
    /\ last.after = last.before
    /\ ~last.fresh => weights = last.before

\* C14 witness: a trained orchestrator has tried to load the corrupt file and
\* still has its weights
C14_Witness ==
  /\ last.op = "load_weights"
  /\ ~last.fresh
  /\ last.file = Garbage
  /\ last.ret = FALSE
  /\ weights # [k \in 1..6 |-> 0]
  /\ weights = last.before


\* ------------------------------------------------------------------ claims: state
\* the categories the tests of _get_state name
SizeCategory(size_mb) ==
  IF size_mb <= Fx(1, 1) THEN "small" ELSE IF size_mb <= Fx(5, 1) THEN "medium" ELSE "large"
LoadCategory(edge_load, cloud_load) ==
  LET avg_load == RoundDiv(edge_load + cloud_load, 2)
  IN  IF avg_load <= Fx(20, 1) THEN "low"
      ELSE IF avg_load <= Fx(40, 1) THEN "medium" ELSE "high"

\* C21: _get_state returns four names: the app type in lower case, the priority,
\* the size category (1.0, 5.0, 10.0 MB are small, medium, large) and the load
\* category (equal loads of 10, 40, 80 MB are low, medium, high).
C21_StateIsCategorical ==
  last.op = "get_state" =>
    /\ last.ret_types = <<"str", "str", "str", "str">>
    /\ last.ret = << Lower(last.task.app_type), Lower(last.task.priority),
                     SizeCategory(last.task.size_mb),
                     LoadCategory(last.edge_load, last.cloud_load) >>

\* ------------------------------------------------------------------ claims: simulators
\* the latest call is a query of one of the given simulator classes
Queried(kinds) == last.op = "simulate_latency" /\ last.sim.kind \in kinds

\* what the latest query would have returned for another size and load, the
\* simulator, the node type, the app type and the draws being the same
SameDraws(task_size_mb, node_load) ==
  Query(last.sim, last.node_type, last.app_type, task_size_mb, node_load, last.draw,
        last.clock).v

\* C22: every simulator class returns a latency above zero, whatever the node
\* type, the app type, the size (>= 0), the load (>= 0) and the draws.
C22_LatencyPositive == Queried(RepoSimKinds) => last.ret > 0

\* a FiveGDistributedSimulator edge query whose fading is negative: the penalty
\* is clamped at zero and the latency is the base latency
C22_Witness ==
  /\ Queried({"fiveg"}) /\ last.node_type = "edge" /\ last.draw = 4750
  /\ Gauss(0, fading_var, last.draw).v < -base_edge_ms
  /\ last.task_size_mb = 0 /\ last.node_load = 0
  /\ last.ret = RoundDiv(base_edge_ms, 1000)

\* the loads and the sizes (MB) the latest query is compared over
LoadGrid == {0, Fx(10, 1), Fx(50, 1), Fx(90, 1), Fx(100, 1), Fx(150, 1), Fx(300, 1)}
SizeGrid == {0, Fx(1, 2), Fx(1, 1), Fx(5, 1), Fx(10, 1)}

\* C23: for FiveGDistributedSimulator and Simu5GAdapter, the node type, the size
\* and the draws being fixed, the latency grows strictly with the load below
\* 100 MB and is the same for every load of 100 MB or more.
C23_MonotoneInLoad ==
  Queried({"fiveg", "simu5g"}) =>
    /\ last.ret = SameDraws(last.task_size_mb, last.node_load)
    /\ \A a \in LoadGrid, b \in LoadGrid :
         a < b =>
           IF a < Fx(100, 1)
           THEN SameDraws(last.task_size_mb, a) < SameDraws(last.task_size_mb, b)
           ELSE SameDraws(last.task_size_mb, a) = SameDraws(last.task_size_mb, b)

\* a Simu5GAdapter query under 150 MB of load: what 100 MB gives, more than 90 MB
C23_Witness ==
  /\ Queried({"simu5g"}) /\ last.node_load = Fx(150, 1)
  /\ last.ret = SameDraws(last.task_size_mb, Fx(100, 1))
  /\ last.ret > SameDraws(last.task_size_mb, Fx(90, 1))

\* C24: for FiveGDistributedSimulator and Simu5GAdapter, the node type, the load
\* and the draws being fixed, a larger task has a strictly higher latency.
C24_MonotoneInSize ==
  Queried({"fiveg", "simu5g"}) =>
    /\ last.ret = SameDraws(last.task_size_mb, last.node_load)
    /\ \A a \in SizeGrid, b \in SizeGrid :
         a < b => SameDraws(a, last.node_load) < SameDraws(b, last.node_load)

\* a FiveGDistributedSimulator query of 5 MB: more than 1 MB, less than 10 MB
C24_Witness ==
  /\ Queried({"fiveg"}) /\ last.task_size_mb = Fx(5, 1)
  /\ last.ret > SameDraws(Fx(1, 1), last.node_load)
  /\ last.ret < SameDraws(Fx(10, 1), last.node_load)

\* a sample of the base simulator for a node type, an app type and a draw
BasicSample(node_type, app_type, draw) ==
  BasicSimulateLatency(SimObject("basic"), node_type, app_type, draw).v
SampleApps == {"IoT", "ARVR", "VANET", "video"}
SampleDraws == QuerySeeds \cup {1, 5000, 9998}

\* C25: with the default parameters of NetworkSimulator, every edge sample is
\* below every cloud sample, whatever the app types and the jitter draws.
C25_EdgeBelowCloud ==
  Queried({"basic"}) =>
    /\ last.ret = BasicSample(last.node_type, last.app_type, last.draw)
    /\ \A app_type \in SampleApps, draw \in SampleDraws :
         IF last.node_type = "edge"
         THEN last.ret < BasicSample("cloud", app_type, draw)
         ELSE BasicSample("edge", app_type, draw) < last.ret

\* the largest edge sample: an ARVR query with the largest draw
C25_Witness ==
  /\ Queried({"basic"}) /\ last.node_type = "edge" /\ last.app_type = "ARVR"
  /\ last.draw = 9999
  /\ last.ret >= Fx(39, 10000)

\* ------------------------------------------------------------------ claims: assignments
\* C26: assign_and_execute runs the task on the edge node for action 0 and on the
\* cloud node for every other action, returns that node's name, raises that
\* node's load by the size of the task and leaves the other node's load as it
\* was; the two loads add up to the sizes assigned since the last reset.
C26_AssignmentRoutesAndLoads ==
  /\ last.op = "assign_and_execute" =>
       /\ last.ret[1] = IF last.action = 0 THEN <<"edge", 0>> ELSE <<"cloud", 1>>
       /\ edge.current_load =
            last.edge_before + (IF last.action = 0 THEN last.task.size_mb ELSE 0)
       /\ cloud.current_load =
            last.cloud_before + (IF last.action = 0 THEN 0 ELSE last.task.size_mb)
  /\ last.op \in {"assign_and_execute", "reset_nodes"} =>
       edge.current_load + cloud.current_load = last.assigned

\* an action other than 0 and 1 sent a task to the cloud node, after an
\* assignment to the edge node
C26_Witness ==
  /\ last.op = "assign_and_execute" /\ last.action = 2
  /\ last.ret[1] = <<"cloud", 1>>
  /\ last.edge_before > 0
  /\ last.assigned = last.edge_before + last.cloud_before + last.task.size_mb

\* ------------------------------------------------------------------ claims: train_and_eval
\* the weights training ended with
TrainedWeights == runs[1].weights

\* C27: the file train_and_eval writes at the end of training holds the trained
\* weight vector: load_weights of it into a fresh orchestrator gives every
\* (state, action) the Q-value the trained orchestrator gives it.
C27_PersistedStoreIsTrainedStore ==
  (evaluation.phase # "none" /\ evaluation.strategy = "RL" /\ Len(runs) = 1) =>
    \E loaded \in {LoadWeights(files, OUT_WEIGHTS, [k \in 1..6 |-> 0])} :
      /\ loaded.ret
      /\ Len(loaded.weights) = Len(TrainedWeights)
      /\ \A state \in PolicyStates, action \in {0, 1} :
           GetQ(loaded.weights, state, action) = GetQ(TrainedWeights, state, action)

\* C28: the evaluation of train_and_eval follows training, takes for each task
\* the greedy action of the weights training produced, and leaves one record
\* (task id, node name, latency) per task, in the order of the tasks.
C28_EvaluationUsesTrainedStore ==
  /\ evaluation.phase # "crashed"
  /\ evaluation.phase \in {"eval", "done"} => Len(runs) = 1
  /\ last.op = "eval_step" =>
       /\ last.store = TrainedWeights
       /\ last.action = ChooseActionGreedy(TrainedWeights, last.state)
  /\ evaluation.phase = "done" =>
       /\ Len(evaluation.results) = Len(evaluation.tasks)
       /\ \A k \in 1..Len(evaluation.tasks) :
            /\ Len(evaluation.results[k]) = 3
            /\ evaluation.results[k][1] = evaluation.tasks[k].task_id

\* ------------------------------------------------------------------ claims: the learned policy
\* the states of all the tasks and loads considered
AllStates ==
  PolicyStates \cup
    {GetState(task, loads[1], loads[2]) :
       task \in CallTasks, loads \in {<<0, 0>>, <<Fx(40, 1), Fx(80, 1)>>}}

\* the action choose_action_greedy gives every state under weights w, if it is
\* one and the same: 0, 1, or "mixed" when two states get different actions
PolicyOf(w) ==
  IF \A state \in AllStates : ChooseActionGreedy(w, state) = 0 THEN "edge"
  ELSE IF \A state \in AllStates : ChooseActionGreedy(w, state) = 1 THEN "cloud"
  ELSE "mixed"

\* Q(state, cloud) - Q(state, edge) is the weight of the is-cloud feature in
\* every state, and one action is chosen greedily in all of them
OneActionForAllStates ==
  /\ \A state \in AllStates : GetQ(weights, state, 1) - GetQ(weights, state, 0) = weights[2]
  /\ PolicyOf(weights) = IF weights[2] > 0 THEN "cloud" ELSE "edge"
  /\ last.op = "choose_action_greedy" =>
       last.action = IF weights[2] > 0 THEN 1 ELSE 0

\* C29: under any weights the two Q-values of a state differ by the weight of
\* the is-cloud feature, so choose_action_greedy gives all states the same
\* action; that action changes only by an update with action = cloud that moves
\* the weight across zero.
C29_PolicyIgnoresState ==
  [][ /\ OneActionForAllStates'
      /\ (weights[2] > 0) # (weights'[2] > 0) =>
           last'.op = "update_q" /\ last'.action = 1 ]_vars

\* after an update with action = cloud made the weight positive, the greedy
\* choice is cloud in every state
C29_Witness ==
  /\ last.op = "choose_action_greedy" /\ last.action = 1
  /\ weights[2] > 0 /\ weights[3] # 0
  /\ PolicyOf(weights) = "cloud"

\* ------------------------------------------------------------------ claims: run_with_workload
\* C30: in run_with_workload every strategy starts its pass over the workload
\* with both nodes at load 0; the RL strategy's nodes carry nothing over from
\* the training episodes run on them just before.
C30_EvaluationStartsUnloaded ==
  (evaluation.phase = "eval" /\ evaluation.strategy \in {Strategies[k] : k \in 1..Len(Strategies)}) =>
    /\ evaluation.start_loads = <<0, 0>>
    /\ (evaluation.results = <<>>) => (edge.current_load = 0 /\ cloud.current_load = 0)
=============================================================================
